---- MODULE Spec2Model ----
(***************************************************************************)
(* A model of the NPC inference orchestrator of llm-npc-backend:           *)
(*   - the tool registry and the combined (session-aware) registry         *)
(*     (internal/tools, in src/internal/npc/storage.go lines 90-276),      *)
(*   - the scratchpad tool handlers (src/internal/tools/scratchpad.go),    *)
(*   - the session manager (src/internal/tools/session.go),                *)
(*   - the recursive tick NPC.actForTickWithDepth                          *)
(*     (src/internal/npc/npc.go lines 213-396).                            *)
(*                                                                         *)
(* Go maps are functions with a finite domain; m[k] = v is (k :> v) @@ m.  *)
(* A Go map iteration visits the keys in an unspecified order, so whatever *)
(* depends on it is a choice over the possible orders.                     *)
(***************************************************************************)
EXTENDS Integers, Sequences, FiniteSets, TLC

(***************************************************************************)
(* Bounds of the model.                                                    *)
(***************************************************************************)
\* the longest list of tool invocations one provider response carries
MaxToolUses == 2
\* the most tool invocations the provider returns over one tick
MaxTickToolUses == 4
\* the most declarations a session registration request or a session
\* snapshot handed to a combined registry carries
MaxSessionTools == 2
\* the simulated clock stops advancing here (minutes)
MaxClock == 100
\* the minutes between two readings of the simulated clock
ClockStep == 30

(***************************************************************************)
(* Program constants.                                                      *)
(***************************************************************************)
\* const maxThinkingDepth = 3
maxThinkingDepth == 3
\* expirationDuration: 1 * time.Hour, in minutes
expirationDuration == 60
\* time.NewTicker(5 * time.Minute), in minutes
cleanupInterval == 5

\* A Go error is nil (NoErr) or carries its message: Err(msg)[1] is Error().
NoErr == <<>>
Err(msg) == <<msg>>
EmptyMap == [x \in {} |-> x]
\* ToolResult.Data left unset
NoData == EmptyMap

\* the orders in which a Go map iteration may visit the keys in S
Perms(S) ==
    {f \in [1..Cardinality(S) -> S] : \A x \in S : \E i \in 1..Cardinality(S) : f[i] = x}

(***************************************************************************)
(* Tool declarations (llm.Tool) and invocations (llm.ToolUse).             *)
(***************************************************************************)
Param(type, required) == [Type |-> type, Required |-> required]

Tool(name, description, parameters) ==
    [Name |-> name, Description |-> description, Parameters |-> parameters]

ToolUse(name, args) == [ToolName |-> name, ToolArgs |-> args]

ToolResult(success, message, data) ==
    [Success |-> success, Message |-> message, Data |-> data]

\* the zero value of tools.ToolResult
ZeroToolResult == ToolResult(FALSE, "", NoData)

continueThinkingTool ==
    Tool("continue_thinking", "builtin continue_thinking",
         "reason" :> Param("string", FALSE))

writeToolDef ==
    Tool("write_scratchpad", "builtin write",
         ("key" :> Param("string", TRUE)) @@ ("value" :> Param("string", TRUE)))

readToolDef ==
    Tool("read_scratchpad", "builtin read", "key" :> Param("string", TRUE))

listToolDef ==
    Tool("list_scratchpad", "builtin list", EmptyMap)

deleteToolDef ==
    Tool("delete_scratchpad", "builtin delete", "key" :> Param("string", TRUE))

\* A JSON argument value is a string, or "#7", which stands for a value that
\* is not a string (the type assertion .(string) fails on it).
IsString(v) == v # "#7"

(***************************************************************************)
(* The world the handlers act on: the scratchpad storage                   *)
(* (npcID -> key -> ScratchpadEntry) and the acts of the handlers a game   *)
(* engine registered.                                                      *)
(***************************************************************************)
ScratchpadEntry(value, t) == [Value |-> value, Timestamp |-> t]

World(st, g) == [storage |-> st, game |-> g]

\* getOrCreateScratchpad: the storage with a scratchpad for npcID
getOrCreateScratchpad(st, npcID) ==
    IF npcID \in DOMAIN st THEN st ELSE (npcID :> EmptyMap) @@ st

\* What one execution gives: the result, the error, the world after it, and
\* whether a handler was invoked.
Outcome(res, err, w, ran) == [res |-> res, err |-> err, world |-> w, ran |-> ran]

continueThinkingHandler(npcID, args, w, t) ==
    LET reason == IF "reason" \in DOMAIN args /\ IsString(args["reason"])
                  THEN args["reason"] ELSE "No reason provided"
    IN  {Outcome(ToolResult(TRUE, "Continuing thinking: " \o reason, NoData), NoErr, w, TRUE)}

BadKey(args) == ~("key" \in DOMAIN args) \/ ~IsString(args["key"]) \/ args["key"] = ""

InvalidKeyOutcome(w) ==
    Outcome(ToolResult(FALSE, "key must be a non-empty string", NoData),
            Err("invalid key"), w, TRUE)

NoMemoryOutcome(key, w) ==
    Outcome(ToolResult(FALSE, "No memory found with key: " \o key, NoData), NoErr, w, TRUE)

handleWrite(npcID, args, w, t) ==
    IF BadKey(args) THEN {InvalidKeyOutcome(w)}
    ELSE IF ~("value" \in DOMAIN args) \/ ~IsString(args["value"])
    THEN {Outcome(ToolResult(FALSE, "value must be a string", NoData),
                  Err("invalid value"), w, TRUE)}
    ELSE LET key == args["key"]
             value == args["value"]
             st1 == getOrCreateScratchpad(w.storage, npcID)
             st2 == [st1 EXCEPT ![npcID] = (key :> ScratchpadEntry(value, t)) @@ @]
         IN  {Outcome(ToolResult(TRUE, "Stored memory: " \o key \o " = " \o value,
                                 [key |-> key, value |-> value]),
                      NoErr, World(st2, w.game), TRUE)}

handleRead(npcID, args, w, t) ==
    IF BadKey(args) THEN {InvalidKeyOutcome(w)}
    ELSE LET key == args["key"]
             st == w.storage
         IN  IF npcID \notin DOMAIN st THEN {NoMemoryOutcome(key, w)}
             ELSE IF key \notin DOMAIN st[npcID] THEN {NoMemoryOutcome(key, w)}
             ELSE {Outcome(ToolResult(TRUE, key \o ": " \o st[npcID][key].Value,
                                      [key |-> key, value |-> st[npcID][key].Value,
                                       timestamp |-> st[npcID][key].Timestamp]),
                           NoErr, w, TRUE)}

RECURSIVE ListMessage(_, _)
\* "- key: value\n" for the keys in the order visited
ListMessage(entries, order) ==
    IF order = <<>> THEN ""
    ELSE "- " \o Head(order) \o ": " \o entries[Head(order)].Value \o "\n"
         \o ListMessage(entries, Tail(order))

handleList(npcID, args, w, t) ==
    LET st == w.storage IN
    IF npcID \notin DOMAIN st \/ DOMAIN st[npcID] = {}
    THEN {Outcome(ToolResult(TRUE, "No memories stored", NoData), NoErr, w, TRUE)}
    ELSE {Outcome(ToolResult(TRUE, "Stored memories:\n" \o ListMessage(st[npcID], order),
                             [memories |-> [i \in DOMAIN order |->
                                              [key |-> order[i],
                                               value |-> st[npcID][order[i]].Value,
                                               timestamp |-> st[npcID][order[i]].Timestamp]],
                              count |-> Len(order)]),
                  NoErr, w, TRUE) : order \in Perms(DOMAIN st[npcID])}

handleDelete(npcID, args, w, t) ==
    IF BadKey(args) THEN {InvalidKeyOutcome(w)}
    ELSE LET key == args["key"]
             st == w.storage
         IN  IF npcID \notin DOMAIN st THEN {NoMemoryOutcome(key, w)}
             ELSE IF key \notin DOMAIN st[npcID] THEN {NoMemoryOutcome(key, w)}
             ELSE {Outcome(ToolResult(TRUE, "Deleted memory with key: " \o key, [key |-> key]),
                           NoErr,
                           World([st EXCEPT ![npcID] = [k \in DOMAIN @ \ {key} |-> @[k]]],
                                 w.game),
                           TRUE)}

\* A handler a game engine registers for a tool of its own (tools.ToolHandler
\* is any function): it acts in the game whatever the arguments are, which
\* the world records as (npcID, arguments), and reports success.
gameHandler(npcID, args, w, t) ==
    {Outcome(ToolResult(TRUE, "done by the game", NoData), NoErr,
             World(w.storage, w.game \cup {<<npcID, args>>}), TRUE)}

\* ToolHandler values are named; calling one dispatches on the name.
Handlers == {"continueThinkingHandler", "handleWrite", "handleRead",
             "handleList", "handleDelete", "gameHandler"}

CallHandler(h, npcID, args, w, t) ==
    CASE h = "continueThinkingHandler" -> continueThinkingHandler(npcID, args, w, t)
      [] h = "handleWrite" -> handleWrite(npcID, args, w, t)
      [] h = "handleRead" -> handleRead(npcID, args, w, t)
      [] h = "handleList" -> handleList(npcID, args, w, t)
      [] h = "handleDelete" -> handleDelete(npcID, args, w, t)
      [] h = "gameHandler" -> gameHandler(npcID, args, w, t)

(***************************************************************************)
(* ToolRegistry: reg.tools (name -> llm.Tool), reg.handlers                *)
(* (name -> ToolHandler).                                                  *)
(***************************************************************************)
Registry(ts, hs) == [tools |-> ts, handlers |-> hs]

NewToolRegistry ==
    Registry("continue_thinking" :> continueThinkingTool,
             "continue_thinking" :> "continueThinkingHandler")

\* RegisterTool that rejects a registered name but rebinds its handler first
RegisterToolPure_Rebind(reg, tool, handler) ==
    IF tool.Name \in DOMAIN reg.tools
    THEN [err |-> Err("tool " \o tool.Name \o " already registered"),
          reg |-> Registry(reg.tools, (tool.Name :> handler) @@ reg.handlers)]
    ELSE [err |-> NoErr,
          reg |-> Registry((tool.Name :> tool) @@ reg.tools,
                           (tool.Name :> handler) @@ reg.handlers)]

\* RegisterTool as a function of the registry: the error and the registry after
RegisterToolPure(reg, tool, handler) ==
    IF tool.Name \in DOMAIN reg.tools
    THEN [err |-> Err("tool " \o tool.Name \o " already registered"), reg |-> reg]
    ELSE [err |-> NoErr,
          reg |-> Registry((tool.Name :> tool) @@ reg.tools,
                           (tool.Name :> handler) @@ reg.handlers)]

\* GetTools: the declarations, in one of the orders the map may be visited in
GetTools(reg) ==
    {[i \in DOMAIN order |-> reg.tools[order[i]]] : order \in Perms(DOMAIN reg.tools)}

\* GetToolsWithSession: the global tools, then the session tools appended
GetToolsWithSession(reg, sessionTools) ==
    {ts \o sessionTools : ts \in GetTools(reg)}

\* the required parameters of tool that args lacks
MissingRequired(tool, args) ==
    {n \in DOMAIN tool.Parameters : tool.Parameters[n].Required /\ n \notin DOMAIN args}

\* the arguments that tool does not declare
Unexpected(tool, args) == {a \in DOMAIN args : a \notin DOMAIN tool.Parameters}

\* validateArgs without its first loop
validateArgs_NoRequired(tool, args) ==
    {Err("unexpected parameter: " \o a) : a \in Unexpected(tool, args)}

\* validateArgs without its second loop
validateArgs_NoUnexpected(tool, args) ==
    {Err("missing required parameter: " \o n) : n \in MissingRequired(tool, args)}

\* validateArgs: the errors it may return (none: it returns nil).  The
\* required parameters are checked first, in map order; then the arguments.
validateArgs(tool, args) ==
    LET missing == MissingRequired(tool, args)
        unexpected == Unexpected(tool, args)
    IN  IF missing # {} THEN {Err("missing required parameter: " \o n) : n \in missing}
        ELSE IF unexpected # {} THEN {Err("unexpected parameter: " \o a) : a \in unexpected}
        ELSE {}

\* ExecuteTool that lets an unknown tool pass as done
ExecuteTool_UnknownSucceeds(reg, npcID, toolUse, w, t) ==
    IF toolUse.ToolName \notin DOMAIN reg.handlers
    THEN {Outcome(ToolResult(TRUE, "", NoData), NoErr, w, FALSE)}
    ELSE LET tool == reg.tools[toolUse.ToolName]
             errs == validateArgs(tool, toolUse.ToolArgs)
         IN  IF errs # {}
             THEN {Outcome(ToolResult(FALSE, e[1], NoData), e, w, FALSE) : e \in errs}
             ELSE CallHandler(reg.handlers[toolUse.ToolName], npcID, toolUse.ToolArgs, w, t)

\* ToolRegistry.ExecuteTool: the outcomes it may have
ExecuteTool(reg, npcID, toolUse, w, t) ==
    IF toolUse.ToolName \notin DOMAIN reg.handlers
    THEN {Outcome(ToolResult(FALSE, "unknown tool: " \o toolUse.ToolName, NoData),
                  Err("unknown tool: " \o toolUse.ToolName), w, FALSE)}
    ELSE LET tool == reg.tools[toolUse.ToolName]
             errs == validateArgs(tool, toolUse.ToolArgs)
         IN  IF errs # {}
             THEN {Outcome(ToolResult(FALSE, e[1], NoData), e, w, FALSE) : e \in errs}
             ELSE CallHandler(reg.handlers[toolUse.ToolName], npcID, toolUse.ToolArgs, w, t)

(***************************************************************************)
(* CombinedToolRegistry: a base registry and a session's declarations.     *)
(***************************************************************************)
NewCombinedToolRegistry(base, sessionTools) == [base |-> base, sessionTools |-> sessionTools]

CombinedGetTools(c) == GetToolsWithSession(c.base, c.sessionTools)

\* the names a list of declarations declares
Names(decls) == {decls[i].Name : i \in DOMAIN decls}

\* CombinedToolRegistry.ExecuteTool that checks the arguments of a session
\* tool against the session's declaration
CombinedExecuteTool_ChecksArguments(c, npcID, toolUse, w, t) ==
    IF \E i \in DOMAIN c.sessionTools : c.sessionTools[i].Name = toolUse.ToolName
    THEN LET tool == c.sessionTools[CHOOSE i \in DOMAIN c.sessionTools :
                                       c.sessionTools[i].Name = toolUse.ToolName]
             errs == validateArgs(tool, toolUse.ToolArgs)
         IN  IF errs # {}
             THEN {Outcome(ToolResult(FALSE, e[1], NoData), e, w, FALSE) : e \in errs}
             ELSE {Outcome(ToolResult(TRUE,
                                      "Session tool '" \o toolUse.ToolName
                                          \o "' called - to be executed by game engine",
                                      [session_tool |-> TRUE,
                                       tool_name |-> toolUse.ToolName,
                                       args |-> toolUse.ToolArgs]),
                           NoErr, w, FALSE)}
    ELSE ExecuteTool(c.base, npcID, toolUse, w, t)

\* CombinedToolRegistry.ExecuteTool that asks the base registry first
CombinedExecuteTool_BaseFirst(c, npcID, toolUse, w, t) ==
    IF toolUse.ToolName \in DOMAIN c.base.handlers
    THEN ExecuteTool(c.base, npcID, toolUse, w, t)
    ELSE IF toolUse.ToolName \in Names(c.sessionTools)
    THEN {Outcome(ToolResult(TRUE,
                             "Session tool '" \o toolUse.ToolName
                                 \o "' called - to be executed by game engine",
                             [session_tool |-> TRUE,
                              tool_name |-> toolUse.ToolName,
                              args |-> toolUse.ToolArgs]),
                  NoErr, w, FALSE)}
    ELSE ExecuteTool(c.base, npcID, toolUse, w, t)

CombinedExecuteTool(c, npcID, toolUse, w, t) ==
    IF \E i \in DOMAIN c.sessionTools : c.sessionTools[i].Name = toolUse.ToolName
    THEN {Outcome(ToolResult(TRUE,
                             "Session tool '" \o toolUse.ToolName
                                 \o "' called - to be executed by game engine",
                             [session_tool |-> TRUE,
                              tool_name |-> toolUse.ToolName,
                              args |-> toolUse.ToolArgs]),
                  NoErr, w, FALSE)}
    ELSE ExecuteTool(c.base, npcID, toolUse, w, t)

(***************************************************************************)
(* State.                                                                  *)
(***************************************************************************)
VARIABLES
    tools,        \* ToolRegistry.tools of the global registry
    handlers,     \* ToolRegistry.handlers of the global registry
    storage,      \* ScratchpadStorage.storage
    game,         \* what the game engine's own handlers did
    call,         \* the last call of the registry's or the session manager's API
                  \* (every operation sets call.op to its name), with what it returned
    sessions,     \* SessionManager.sessions
    now,          \* time.Now(), in minutes
    nextSweep,    \* when the cleanup ticker fires next
    swept,        \* history: the sessions a sweep deleted and no one registered since
    tick,         \* the tick in progress: the frames of actForTickWithDepth
    procs,        \* the goroutines inside the session manager: what each one
                  \* runs, where it stands and how it holds sm.mu
    workers,      \* the goroutines inside the scratchpad storage: what each one
                  \* runs, where it stands and how it holds s.mu and scratchpad.mu
    npcs,         \* NPCStorage.npcs
    refreshed     \* history, kept where the session manager runs statement by
                  \* statement: the time.Now() of each session's latest
                  \* registration or successful lookup

vars ==
    <<tools, handlers, storage, game, call, sessions, now, nextSweep, swept, tick, procs,
      workers, npcs, refreshed>>

registry == Registry(tools, handlers)
world == World(storage, game)

\* an API call and what it returned
Call(op, arg, out) == [op |-> op, arg |-> arg, out |-> out]

NoCall == Call("none", EmptyMap, EmptyMap)

(***************************************************************************)
(* Inputs of the registry's operations.                                    *)
(***************************************************************************)
\* the NPC names ExecuteTool is called with
RegNPCs == {"Elara"}

\* a game engine's global tool and the same name declared by a session
speakGlobal == Tool("speak", "global speak", "text" :> Param("string", TRUE))
speakSession == Tool("speak", "session speak", "line" :> Param("string", TRUE))
giveItemSession == Tool("give_item", "session give_item", "item" :> Param("string", TRUE))
\* declarations that reuse the name of a built-in tool
continueThinkingOther == Tool("continue_thinking", "another continue_thinking", EmptyMap)
writeOther == Tool("write_scratchpad", "another write", EmptyMap)

\* what RegisterTool is called with
Registrations ==
    {<<writeToolDef, "handleWrite">>,
     <<speakGlobal, "gameHandler">>,
     <<continueThinkingOther, "gameHandler">>,
     <<writeOther, "gameHandler">>}

\* the declarations a session may hold
SessionDecls == {speakSession, giveItemSession, continueThinkingOther}

RECURSIVE SeqsUpTo(_, _)
\* the sequences over S of length at most n
SeqsUpTo(S, n) ==
    IF n = 0 THEN {<<>>}
    ELSE LET shorter == SeqsUpTo(S, n - 1)
         IN  shorter \cup {Append(q, x) : q \in shorter, x \in S}

\* a session's declarations as GetSessionTools hands them out: one per name
SessionToolLists ==
    {q \in SeqsUpTo(SessionDecls, MaxSessionTools) :
        \A i, j \in DOMAIN q : q[i].Name = q[j].Name => i = j}

Args0 == EmptyMap
ArgsKV == ("key" :> "k1") @@ ("value" :> "v1")

\* the invocations ExecuteTool is called with
ToolUses ==
    {ToolUse("continue_thinking", "reason" :> "look again"),
     ToolUse("continue_thinking", "bogus" :> "x"),
     ToolUse("write_scratchpad", ArgsKV),
     ToolUse("write_scratchpad", "value" :> "v1"),
     ToolUse("write_scratchpad", Args0),
     ToolUse("write_scratchpad", ArgsKV @@ ("extra" :> "x")),
     ToolUse("write_scratchpad", ("key" :> "") @@ ("value" :> "v1")),
     ToolUse("speak", "text" :> "hello"),
     ToolUse("speak", Args0),
     ToolUse("speak", ("text" :> "hello") @@ ("volume" :> "#7")),
     ToolUse("give_item", "item" :> "sword"),
     ToolUse("fly", Args0)}

(***************************************************************************)
(* A tick: NPC.ActForTick and the frames of actForTickWithDepth.           *)
(***************************************************************************)
\* input.ToolRegistry: nil, the global registry, or a combined registry
NilRegistry == [kind |-> "nil", sessionTools |-> <<>>]
BaseRegistry == [kind |-> "base", sessionTools |-> <<>>]
CombinedRegistry(sessionTools) == [kind |-> "combined", sessionTools |-> sessionTools]

NPCTickEvent(type, description) == [EventType |-> type, EventDescription |-> description]

Surrounding(name, description) == [Name |-> name, Description |-> description]

KnowledgeGraph(nodes, edges) == [Nodes |-> nodes, Edges |-> edges]

\* NPCState has no fields
NPCState == EmptyMap

\* an NPCTickInput with events and a tool registry, its other fields zero
NPCTickInput(events, toolRegistry) ==
    [Surroundings |-> <<>>, KnowledgeGraph |-> KnowledgeGraph(<<>>, <<>>),
     NPCState |-> NPCState, KnowledgeGraphDepth |-> 0,
     Events |-> events, ToolRegistry |-> toolRegistry]

LLMResponse(response, toolUses) == [Response |-> response, ToolUses |-> toolUses]

NPCToolResult(toolName, args, success, response, error) ==
    [ToolName |-> toolName, Args |-> args, Success |-> success,
     Response |-> response, Error |-> error]

InferenceRound(roundNumber, response, toolsUsed) ==
    [RoundNumber |-> roundNumber, LLMResponse |-> response, ToolsUsed |-> toolsUsed,
     Success |-> TRUE, ErrorMessage |-> ""]

NPCTickResult(rounds, response, success, errorMessage) ==
    [Rounds |-> rounds, LLMResponse |-> response, Success |-> success,
     ErrorMessage |-> errorMessage]

\* no tick is running (npc is the Name of the NPC that ticks, id the NPCID of
\* the request when the tick serves one)
IdleTick ==
    [pc |-> "idle", npc |-> "", id |-> "", depth |-> 0,
     input |-> NPCTickInput(<<>>, NilRegistry),
     llmRequest |-> [HasTools |-> FALSE, Tools |-> EmptyMap],
     llmResponse |-> LLMResponse("", <<>>),
     toolResults |-> <<>>,
     frames |-> <<>>,
     result |-> NPCTickResult(<<>>, "", FALSE, ""),
     failedAt |-> -1, uses |-> 0, calls |-> 0]

InitTick == tick = IdleTick

(***************************************************************************)
(* The registry's operations.                                              *)
(***************************************************************************)
\* the goroutines that run scratchpad tool handlers (two ticks at a time)
PadGoroutines == {"t1", "t2"}

\* a goroutine outside the scratchpad storage
Idle ==
    [op |-> "none", npcID |-> "", key |-> "", pc |-> "out", smu |-> "none",
     pad |-> "", padmu |-> "none", todo |-> {}, result |-> EmptyMap]

NoWorkers == [g \in PadGoroutines |-> Idle]

InitRegistry ==
    /\ tools = NewToolRegistry.tools
    /\ handlers = NewToolRegistry.handlers
    /\ storage = EmptyMap
    /\ game = {}
    /\ call = NoCall
    /\ workers = NoWorkers
    /\ refreshed = EmptyMap
    /\ npcs = EmptyMap

\* the goroutines that call the session manager, and the cleanup goroutine
Goroutines == {"h1", "h2", "cleanup"}

\* a goroutine outside the session manager
Outside ==
    [op |-> "none", sessionID |-> "", tools |-> <<>>, pc |-> "out", lock |-> "none", t |-> 0,
     i |-> 0]

NoProcs == [g \in Goroutines |-> Outside]

InitSessions ==
    /\ sessions = EmptyMap
    /\ now = 0
    /\ nextSweep = cleanupInterval
    /\ swept = {}
    /\ procs = NoProcs

\* ToolRegistry.RegisterTool(tool, handler)
RegisterTool(tool, handler) ==
    LET r == RegisterToolPure(registry, tool, handler) IN
    /\ tools' = r.reg.tools
    /\ handlers' = r.reg.handlers
    /\ call' = Call("RegisterTool", [tool |-> tool, handler |-> handler], [err |-> r.err])
    /\ UNCHANGED <<refreshed, workers, npcs, procs, storage, game, sessions, now, nextSweep, swept, tick>>

\* ToolRegistry.GetTools()
DoGetTools ==
    \E ts \in GetTools(registry) :
        /\ call' = Call("GetTools", EmptyMap, [tools |-> ts])
        /\ UNCHANGED <<refreshed, workers, npcs, procs, tools, handlers, storage, game, sessions, now, nextSweep, swept, tick>>

\* CombinedToolRegistry.GetTools() of NewCombinedToolRegistry(registry, sessionTools)
DoCombinedGetTools(sessionTools) ==
    \E ts \in CombinedGetTools(NewCombinedToolRegistry(registry, sessionTools)) :
        /\ call' = Call("CombinedGetTools", [sessionTools |-> sessionTools], [tools |-> ts])
        /\ UNCHANGED <<refreshed, workers, npcs, procs, tools, handlers, storage, game, sessions, now, nextSweep, swept, tick>>

\* ToolRegistry.ExecuteTool(ctx, npcID, toolUse)
DoExecuteTool(npcID, toolUse) ==
    \E o \in ExecuteTool(registry, npcID, toolUse, world, now) :
        /\ storage' = o.world.storage
        /\ game' = o.world.game
        /\ call' = Call("ExecuteTool", [npcID |-> npcID, toolUse |-> toolUse],
                        [res |-> o.res, err |-> o.err, ran |-> o.ran])
        /\ UNCHANGED <<refreshed, workers, npcs, procs, tools, handlers, sessions, now, nextSweep, swept, tick>>

\* CombinedToolRegistry.ExecuteTool(ctx, npcID, toolUse)
DoCombinedExecuteTool(sessionTools, npcID, toolUse) ==
    \E o \in CombinedExecuteTool(NewCombinedToolRegistry(registry, sessionTools),
                                 npcID, toolUse, world, now) :
        /\ storage' = o.world.storage
        /\ game' = o.world.game
        /\ call' = Call("CombinedExecuteTool",
                        [sessionTools |-> sessionTools, npcID |-> npcID, toolUse |-> toolUse],
                        [res |-> o.res, err |-> o.err, ran |-> o.ran])
        /\ UNCHANGED <<refreshed, workers, npcs, procs, tools, handlers, sessions, now, nextSweep, swept, tick>>

InitReg == InitRegistry /\ InitSessions /\ InitTick

NextReg ==
    \/ \E r \in Registrations : RegisterTool(r[1], r[2])
    \/ DoGetTools
    \/ \E st \in SessionToolLists : DoCombinedGetTools(st)
    \/ \E n \in RegNPCs, u \in ToolUses : DoExecuteTool(n, u)
    \/ \E st \in SessionToolLists, n \in RegNPCs, u \in ToolUses :
          DoCombinedExecuteTool(st, n, u)

\* the registry and the combined registry under any sequence of calls
SpecReg == InitReg /\ [][NextReg]_vars

(***************************************************************************)
(* SessionManager.  Every operation runs under sm.mu from its first to its *)
(* last statement, so each is one step.                                    *)
(***************************************************************************)
Session(id, ts, createdAt, lastUsed) ==
    [ID |-> id, Tools |-> ts, CreatedAt |-> createdAt, LastUsed |-> lastUsed]

SessionIDs == {"s1", "g1"}

\* a second declaration of the session tool speak
speakSessionV2 == Tool("speak", "session speak, revised", "text" :> Param("string", FALSE))

\* the tool lists RegisterSession is called with: no declaration twice, the
\* same name possibly twice
RegisterLists ==
    {q \in SeqsUpTo({speakSession, speakSessionV2, giveItemSession}, MaxSessionTools) :
        \A i, j \in DOMAIN q : q[i] = q[j] => i = j}

RECURSIVE PutTools(_, _)
\* for _, tool := range tools { session.Tools[tool.Name] = tool }
PutTools(m, ts) ==
    IF ts = <<>> THEN m
    ELSE PutTools((Head(ts).Name :> Head(ts)) @@ m, Tail(ts))

\* RegisterSession that replaces the session's declarations by the new ones
RegisterSession_Replace(sessionID, ts) ==
    LET session == IF sessionID \in DOMAIN sessions
                   THEN [sessions[sessionID] EXCEPT !.LastUsed = now]
                   ELSE Session(sessionID, EmptyMap, now, now)
    IN  /\ sessions' = (sessionID :> [session EXCEPT !.Tools = PutTools(EmptyMap, ts)]) @@ sessions
        /\ call' = Call("RegisterSession", [sessionID |-> sessionID, tools |-> ts],
                        [err |-> NoErr])
        /\ swept' = swept \ {sessionID}
        /\ UNCHANGED <<refreshed, workers, npcs, procs, tools, handlers, storage, game, now, nextSweep, tick>>

\* SessionManager.RegisterSession(sessionID, tools)
RegisterSession(sessionID, ts) ==
    LET session == IF sessionID \in DOMAIN sessions
                   THEN [sessions[sessionID] EXCEPT !.LastUsed = now]
                   ELSE Session(sessionID, EmptyMap, now, now)
    IN  /\ sessions' = (sessionID :> [session EXCEPT !.Tools = PutTools(@, ts)]) @@ sessions
        /\ call' = Call("RegisterSession", [sessionID |-> sessionID, tools |-> ts],
                        [err |-> NoErr])
        /\ swept' = swept \ {sessionID}
        /\ UNCHANGED <<refreshed, workers, npcs, procs, tools, handlers, storage, game, now, nextSweep, tick>>

\* GetSessionTools that leaves LastUsed as it was
GetSessionToolsPure_NoRefresh(ss, sessionID, t) ==
    IF sessionID \notin DOMAIN ss
    THEN {[tools |-> <<>>, err |-> Err("session not found: " \o sessionID), sessions |-> ss]}
    ELSE {[tools |-> [i \in DOMAIN order |-> ss[sessionID].Tools[order[i]]],
           err |-> NoErr,
           sessions |-> ss] : order \in Perms(DOMAIN ss[sessionID].Tools)}

\* GetSessionTools as a function of the session map ss and the time t: what
\* it may return (the slice is new; its order is that of a map iteration)
\* with the session map after it
GetSessionToolsPure(ss, sessionID, t) ==
    IF sessionID \notin DOMAIN ss
    THEN {[tools |-> <<>>, err |-> Err("session not found: " \o sessionID), sessions |-> ss]}
    ELSE {[tools |-> [i \in DOMAIN order |-> ss[sessionID].Tools[order[i]]],
           err |-> NoErr,
           sessions |-> [ss EXCEPT ![sessionID].LastUsed = t]] :
              order \in Perms(DOMAIN ss[sessionID].Tools)}

\* SessionManager.GetSessionTools(sessionID)
GetSessionTools(sessionID) ==
    \E r \in GetSessionToolsPure(sessions, sessionID, now) :
        /\ sessions' = r.sessions
        /\ call' = Call("GetSessionTools", [sessionID |-> sessionID],
                        [tools |-> r.tools, err |-> r.err])
        /\ UNCHANGED <<refreshed, workers, npcs, procs, tools, handlers, storage, game, now, nextSweep, swept, tick>>

\* SessionManager.TouchSession(sessionID)
TouchSession(sessionID) ==
    /\ sessions' = IF sessionID \in DOMAIN sessions
                   THEN [sessions EXCEPT ![sessionID].LastUsed = now]
                   ELSE sessions
    /\ call' = Call("TouchSession", [sessionID |-> sessionID], EmptyMap)
    /\ UNCHANGED <<refreshed, workers, npcs, procs, tools, handlers, storage, game, now, nextSweep, swept, tick>>

\* DeleteSession that empties the session map
DeleteSession_DropsAll(sessionID) ==
    /\ IF sessionID \notin DOMAIN sessions
       THEN /\ call' = Call("DeleteSession", [sessionID |-> sessionID],
                            [err |-> Err("session not found: " \o sessionID)])
            /\ UNCHANGED sessions
       ELSE /\ sessions' = EmptyMap
            /\ call' = Call("DeleteSession", [sessionID |-> sessionID], [err |-> NoErr])
    /\ UNCHANGED <<refreshed, workers, npcs, procs, tools, handlers, storage, game, now, nextSweep, swept, tick>>

\* SessionManager.DeleteSession(sessionID)
DeleteSession(sessionID) ==
    /\ IF sessionID \notin DOMAIN sessions
       THEN /\ call' = Call("DeleteSession", [sessionID |-> sessionID],
                            [err |-> Err("session not found: " \o sessionID)])
            /\ UNCHANGED sessions
       ELSE /\ sessions' = [id \in DOMAIN sessions \ {sessionID} |-> sessions[id]]
            /\ call' = Call("DeleteSession", [sessionID |-> sessionID], [err |-> NoErr])
    /\ UNCHANGED <<refreshed, workers, npcs, procs, tools, handlers, storage, game, now, nextSweep, swept, tick>>

\* SessionManager.GetSessionCount()
GetSessionCount ==
    /\ call' = Call("GetSessionCount", EmptyMap, [count |-> Cardinality(DOMAIN sessions)])
    /\ UNCHANGED <<refreshed, workers, npcs, procs, tools, handlers, storage, game, sessions, now, nextSweep, swept, tick>>

\* the expiry test with the two times of the subtraction exchanged
Expired_Reversed(session, t) == session.LastUsed - t > expirationDuration

\* the expiry test that takes the window for hours where the clock counts
\* minutes
Expired_WindowInHours(session, t) == t - session.LastUsed > expirationDuration * 60

\* now.Sub(session.LastUsed) > sm.expirationDuration
Expired(session, t) == t - session.LastUsed > expirationDuration

\* One turn of the loop of cleanupExpiredSessions, run when the ticker has
\* fired.  The ticker fires every cleanupInterval and keeps one tick for a
\* receiver that is late.
Sweep ==
    /\ now >= nextSweep
    /\ sessions' = [id \in {i \in DOMAIN sessions : ~Expired(sessions[i], now)} |-> sessions[id]]
    /\ nextSweep' = now - (now % cleanupInterval) + cleanupInterval
    /\ swept' = swept \cup {id \in DOMAIN sessions : Expired(sessions[id], now)}
    /\ call' = Call("Sweep", [at |-> now], EmptyMap)
    /\ UNCHANGED <<refreshed, workers, npcs, procs, tools, handlers, storage, game, now, tick>>

\* time passes
AdvanceClock ==
    /\ now + ClockStep <= MaxClock
    /\ now' = now + ClockStep
    /\ call' = Call("AdvanceClock", EmptyMap, EmptyMap)
    /\ UNCHANGED <<refreshed, workers, npcs, procs, tools, handlers, storage, game, sessions, nextSweep, swept, tick>>

InitSess == InitRegistry /\ InitSessions /\ InitTick

NextSess ==
    \/ \E id \in SessionIDs, ts \in RegisterLists : RegisterSession(id, ts)
    \/ \E id \in SessionIDs : GetSessionTools(id)
    \/ \E id \in SessionIDs : TouchSession(id)
    \/ \E id \in SessionIDs : DeleteSession(id)
    \/ GetSessionCount
    \/ Sweep
    \/ AdvanceClock

\* the session manager under any sequence of calls, sweeps and clock readings
SpecSess == InitSess /\ [][NextSess]_vars

(***************************************************************************)
(* The tick's steps.  actForTickWithDepth runs in the caller's goroutine;  *)
(* it is cut where it calls the provider, where it executes one tool, and  *)
(* where a frame returns.  ParseSurroundings, ParseKnowledgeGraph and      *)
(* ParseEvents always return a nil error, so no frame fails before its     *)
(* provider call.                                                          *)
(***************************************************************************)
\* the NPCs that tick (Name is what ExecuteTool is given as npcID)
TickNPCs == {"Elara"}

\* the effective tool sets a tick is given
TickRegistries == {NilRegistry, BaseRegistry, CombinedRegistry(<<giveItemSession>>)}

\* the text of the provider's response to the k-th call of a tick (the tick
\* branches on no text; each call answers with a text of its own)
Texts(k) == {"reply " \o ToString(k)}

\* the invocations the provider's responses carry
TickToolUses ==
    {ToolUse("continue_thinking", Args0),
     ToolUse("continue_thinking", "bogus" :> "x"),
     ToolUse("write_scratchpad", ArgsKV),
     ToolUse("write_scratchpad", "value" :> "v1"),
     ToolUse("give_item", "item" :> "sword")}

\* the lists of invocations one response may carry
ProviderToolUses == SeqsUpTo(TickToolUses, MaxToolUses)

\* the errors of the provider's Generate, by their messages
ProviderErrors ==
    {"llm provider unavailable", "bad request to llm provider", "llm provider rate limited",
     "llm request timeout", "llm provider unauthorized", "llm model not found",
     "unexpected end of JSON input"}

\* the global registry as cmd/backend/main.go builds it
RECURSIVE RegisterAll(_, _)
RegisterAll(reg, regs) ==
    IF regs = <<>> THEN reg
    ELSE RegisterAll(RegisterToolPure(reg, Head(regs)[1], Head(regs)[2]).reg, Tail(regs))

MainRegistry ==
    RegisterAll(NewToolRegistry, <<<<writeToolDef, "handleWrite">>,
                                   <<readToolDef, "handleRead">>,
                                   <<listToolDef, "handleList">>,
                                   <<deleteToolDef, "handleDelete">>>>)

InitMain ==
    /\ tools = MainRegistry.tools
    /\ handlers = MainRegistry.handlers
    /\ storage = EmptyMap
    /\ game = {}
    /\ call = NoCall
    /\ workers = NoWorkers
    /\ refreshed = EmptyMap
    /\ npcs = EmptyMap

\* llmRequest.Tools = input.ToolRegistry.GetTools(), kept without the order
\* of the list (that of the global tools is the map's): each declaration with
\* the number of times the list holds it
RequestTools(reg) ==
    LET global == {tools[n] : n \in DOMAIN tools}
        session == IF reg.kind = "combined" THEN reg.sessionTools ELSE <<>>
    IN  [d \in global \cup {session[i] : i \in DOMAIN session} |->
            (IF d \in global THEN 1 ELSE 0) + Cardinality({i \in DOMAIN session : session[i] = d})]

\* the request of a frame: Tools is set only under a tool registry
LLMRequest(reg) ==
    IF reg.kind = "nil" THEN [HasTools |-> FALSE, Tools |-> EmptyMap]
    ELSE [HasTools |-> TRUE, Tools |-> RequestTools(reg)]

\* input.ToolRegistry.ExecuteTool(ctx, n.Name, toolUse)
ProviderExecuteTool(reg, npcID, toolUse, w, t) ==
    IF reg.kind = "combined"
    THEN CombinedExecuteTool(NewCombinedToolRegistry(registry, reg.sessionTools),
                             npcID, toolUse, w, t)
    ELSE ExecuteTool(registry, npcID, toolUse, w, t)

\* NPC.ActForTick(input): the call of actForTickWithDepth(input, 0)
StartTick(n, reg) ==
    /\ tick.pc \in {"idle", "done"}
    /\ tick' = [IdleTick EXCEPT !.pc = "generate", !.npc = n,
                                !.input = NPCTickInput(<<>>, reg)]
    /\ UNCHANGED <<refreshed, workers, npcs, procs, tools, handlers, storage, game, call, sessions, now, nextSweep, swept>>

\* the result of a frame whose provider call failed
FailedResult(msg) == NPCTickResult(<<>>, "", FALSE, "Error calling LLM: " \o msg)

\* a frame that calls the provider again when the call failed
GenerateFails_Retry(msg) ==
    /\ tick.pc = "generate"
    /\ tick' = [tick EXCEPT !.llmRequest = LLMRequest(tick.input.ToolRegistry),
                            !.calls = @ + 1,
                            !.failedAt = tick.depth,
                            !.result = FailedResult(msg)]
    /\ UNCHANGED <<refreshed, workers, npcs, procs, tools, handlers, storage, game, call, sessions, now, nextSweep, swept>>

\* CallLLM(llmRequest) returns an error
GenerateFails(msg) ==
    /\ tick.pc = "generate"
    /\ tick' = [tick EXCEPT !.pc = "return",
                            !.llmRequest = LLMRequest(tick.input.ToolRegistry),
                            !.calls = @ + 1,
                            !.failedAt = tick.depth,
                            !.result = FailedResult(msg)]
    /\ UNCHANGED <<refreshed, workers, npcs, procs, tools, handlers, storage, game, call, sessions, now, nextSweep, swept>>

\* CallLLM(llmRequest) returns a response
GenerateResponds(text, toolUses) ==
    /\ tick.pc = "generate"
    /\ tick.uses + Len(toolUses) <= MaxTickToolUses
    /\ tick' = [tick EXCEPT !.pc = "tools",
                            !.llmRequest = LLMRequest(tick.input.ToolRegistry),
                            !.calls = @ + 1,
                            !.uses = @ + Len(toolUses),
                            !.llmResponse = LLMResponse(text, toolUses),
                            !.toolResults = <<>>]
    /\ UNCHANGED <<refreshed, workers, npcs, procs, tools, handlers, storage, game, call, sessions, now, nextSweep, swept>>

\* the loop that stops at the first execution that failed
ToolsPending_StopOnFailure(t) ==
    /\ t.input.ToolRegistry.kind # "nil"
    /\ Len(t.toolResults) < Len(t.llmResponse.ToolUses)
    /\ \A i \in DOMAIN t.toolResults : t.toolResults[i].Success

\* whether the loop over llmResponse.ToolUses has more to execute
ToolsPending(t) ==
    /\ t.input.ToolRegistry.kind # "nil"
    /\ Len(t.toolResults) < Len(t.llmResponse.ToolUses)

\* the turn that records a failed execution as a success without an error
ExecuteNextTool_SwallowsError ==
    /\ tick.pc = "tools"
    /\ ToolsPending(tick)
    /\ LET toolUse == tick.llmResponse.ToolUses[Len(tick.toolResults) + 1] IN
       \E o \in ProviderExecuteTool(tick.input.ToolRegistry, tick.npc, toolUse, world, now) :
          LET toolResult ==
                  IF o.err # NoErr
                  THEN NPCToolResult(toolUse.ToolName, toolUse.ToolArgs, TRUE,
                                     o.res.Message, "")
                  ELSE NPCToolResult(toolUse.ToolName, toolUse.ToolArgs, o.res.Success,
                                     o.res.Message, "")
          IN  /\ tick' = [tick EXCEPT !.toolResults = Append(@, toolResult)]
              /\ storage' = o.world.storage
              /\ game' = o.world.game
    /\ UNCHANGED <<refreshed, workers, npcs, procs, tools, handlers, call, sessions, now, nextSweep, swept>>

\* one turn of the loop over llmResponse.ToolUses
ExecuteNextTool ==
    /\ tick.pc = "tools"
    /\ ToolsPending(tick)
    /\ LET toolUse == tick.llmResponse.ToolUses[Len(tick.toolResults) + 1] IN
       \E o \in ProviderExecuteTool(tick.input.ToolRegistry, tick.npc, toolUse, world, now) :
          LET toolResult ==
                  IF o.err # NoErr
                  THEN NPCToolResult(toolUse.ToolName, toolUse.ToolArgs, FALSE,
                                     o.res.Message, o.err[1])
                  ELSE NPCToolResult(toolUse.ToolName, toolUse.ToolArgs, o.res.Success,
                                     o.res.Message, "")
          IN  /\ tick' = [tick EXCEPT !.toolResults = Append(@, toolResult)]
              /\ storage' = o.world.storage
              /\ game' = o.world.game
    /\ UNCHANGED <<refreshed, workers, npcs, procs, tools, handlers, call, sessions, now, nextSweep, swept>>

\* usedContinueThinking
UsedContinueThinking(llmResponse) ==
    \E i \in DOMAIN llmResponse.ToolUses : llmResponse.ToolUses[i].ToolName = "continue_thinking"

\* the test that needs continue_thinking to have succeeded
ShouldContinue_IfSucceeded(llmResponse, toolResults, depth, reg) ==
    /\ \E i \in DOMAIN toolResults :
          toolResults[i].ToolName = "continue_thinking" /\ toolResults[i].Success
    /\ depth < maxThinkingDepth
    /\ reg.kind # "nil"

\* the test that lets depth maxThinkingDepth continue as well
ShouldContinue_DepthOffByOne(llmResponse, toolResults, depth, reg) ==
    /\ UsedContinueThinking(llmResponse)
    /\ depth <= maxThinkingDepth
    /\ reg.kind # "nil"

\* the test without the check of input.ToolRegistry
ShouldContinue_NoRegistryCheck(llmResponse, toolResults, depth, reg) ==
    /\ UsedContinueThinking(llmResponse)
    /\ depth < maxThinkingDepth

\* usedContinueThinking && depth < maxThinkingDepth && input.ToolRegistry != nil
ShouldContinue(llmResponse, toolResults, depth, reg) ==
    /\ UsedContinueThinking(llmResponse)
    /\ depth < maxThinkingDepth
    /\ reg.kind # "nil"

\* the event of the next round for one tool result
ToolResultEvent(toolResult) ==
    NPCTickEvent(IF toolResult.Success THEN "tool_execution" ELSE "tool_error",
                 "Tool '" \o toolResult.ToolName \o "' executed"
                     \o (IF toolResult.Response # ""
                         THEN " - Response: " \o toolResult.Response ELSE "")
                     \o (IF toolResult.Error # ""
                         THEN " - Error: " \o toolResult.Error ELSE ""))

\* the continuation input that adds the new events to those of the round
ContinueInput_AppendsEvents(input, newEvents) ==
    [Surroundings |-> input.Surroundings,
     KnowledgeGraph |-> input.KnowledgeGraph,
     NPCState |-> input.NPCState,
     KnowledgeGraphDepth |-> input.KnowledgeGraphDepth,
     Events |-> input.Events \o newEvents,
     ToolRegistry |-> input.ToolRegistry]

\* continueInput: the input of the next round
ContinueInput(input, newEvents) ==
    [Surroundings |-> input.Surroundings,
     KnowledgeGraph |-> input.KnowledgeGraph,
     NPCState |-> input.NPCState,
     KnowledgeGraphDepth |-> input.KnowledgeGraphDepth,
     Events |-> newEvents,
     ToolRegistry |-> input.ToolRegistry]

\* the frame that looks the session's declarations up again for the next
\* round, and falls back to the global registry when no session holds them
ContinueThinking_ResolveAgain ==
    /\ tick.pc = "tools"
    /\ ~ToolsPending(tick)
    /\ ShouldContinue(tick.llmResponse, tick.toolResults, tick.depth, tick.input.ToolRegistry)
    /\ tick' = [tick EXCEPT
                  !.pc = "generate",
                  !.frames = Append(@, [llmResponse |-> tick.llmResponse,
                                        toolResults |-> tick.toolResults]),
                  !.input =
                      [ContinueInput(tick.input, [i \in DOMAIN tick.toolResults |->
                                                     ToolResultEvent(tick.toolResults[i])])
                       EXCEPT !.ToolRegistry =
                          IF \/ tick.input.ToolRegistry.kind # "combined"
                             \/ \E id \in DOMAIN sessions :
                                   \A i \in DOMAIN tick.input.ToolRegistry.sessionTools :
                                      LET d == tick.input.ToolRegistry.sessionTools[i]
                                      IN  /\ d.Name \in DOMAIN sessions[id].Tools
                                          /\ sessions[id].Tools[d.Name] = d
                          THEN tick.input.ToolRegistry
                          ELSE BaseRegistry],
                  !.depth = @ + 1,
                  !.toolResults = <<>>]
    /\ UNCHANGED <<refreshed, workers, npcs, procs, tools, handlers, storage, game, call, sessions, now, nextSweep, swept>>

\* the frame calls actForTickWithDepth(continueInput, depth+1)
ContinueThinking ==
    /\ tick.pc = "tools"
    /\ ~ToolsPending(tick)
    /\ ShouldContinue(tick.llmResponse, tick.toolResults, tick.depth, tick.input.ToolRegistry)
    /\ tick' = [tick EXCEPT
                  !.pc = "generate",
                  !.frames = Append(@, [llmResponse |-> tick.llmResponse,
                                        toolResults |-> tick.toolResults]),
                  !.input = ContinueInput(tick.input,
                                          [i \in DOMAIN tick.toolResults |->
                                              ToolResultEvent(tick.toolResults[i])]),
                  !.depth = @ + 1,
                  !.toolResults = <<>>]
    /\ UNCHANGED <<refreshed, workers, npcs, procs, tools, handlers, storage, game, call, sessions, now, nextSweep, swept>>

\* "=== Inference %d ===\n%s"
InferenceHeader(roundNumber, response) ==
    "=== Inference " \o ToString(roundNumber) \o " ===\n" \o response

\* the base case's result without its round
BaseCaseResult_NoRound(depth, llmResponse, toolResults) ==
    NPCTickResult(<<>>,
                  IF depth > 0 THEN InferenceHeader(depth + 1, llmResponse.Response)
                  ELSE llmResponse.Response,
                  TRUE, "")

\* the base case's result that fails when a tool execution failed
BaseCaseResult_FailOnToolError(depth, llmResponse, toolResults) ==
    NPCTickResult(<<InferenceRound(depth + 1, llmResponse.Response, toolResults)>>,
                  IF depth > 0 THEN InferenceHeader(depth + 1, llmResponse.Response)
                  ELSE llmResponse.Response,
                  \A i \in DOMAIN toolResults : toolResults[i].Success,
                  IF \A i \in DOMAIN toolResults : toolResults[i].Success
                  THEN "" ELSE "Error executing tool")

\* the base case's result
BaseCaseResult(depth, llmResponse, toolResults) ==
    NPCTickResult(<<InferenceRound(depth + 1, llmResponse.Response, toolResults)>>,
                  IF depth > 0 THEN InferenceHeader(depth + 1, llmResponse.Response)
                  ELSE llmResponse.Response,
                  TRUE, "")

\* the frame takes the base case and returns
BaseCase ==
    /\ tick.pc = "tools"
    /\ ~ToolsPending(tick)
    /\ ~ShouldContinue(tick.llmResponse, tick.toolResults, tick.depth, tick.input.ToolRegistry)
    /\ tick' = [tick EXCEPT !.pc = "return",
                            !.result = BaseCaseResult(tick.depth, tick.llmResponse,
                                                      tick.toolResults)]
    /\ UNCHANGED <<refreshed, workers, npcs, procs, tools, handlers, storage, game, call, sessions, now, nextSweep, swept>>

\* the combined result with the current round appended, not prepended
CombinedResult_RoundLast(depth, llmResponse, toolResults, continueResult) ==
    NPCTickResult(continueResult.Rounds
                      \o <<InferenceRound(depth + 1, llmResponse.Response, toolResults)>>,
                  InferenceHeader(depth + 1, llmResponse.Response)
                      \o (IF continueResult.LLMResponse # ""
                          THEN "\n" \o continueResult.LLMResponse ELSE ""),
                  continueResult.Success,
                  continueResult.ErrorMessage)

\* the combined result that reports the frame's own success, not that of the
\* recursive call
CombinedResult_OwnSuccess(depth, llmResponse, toolResults, continueResult) ==
    NPCTickResult(<<InferenceRound(depth + 1, llmResponse.Response, toolResults)>>
                      \o continueResult.Rounds,
                  InferenceHeader(depth + 1, llmResponse.Response)
                      \o (IF continueResult.LLMResponse # ""
                          THEN "\n" \o continueResult.LLMResponse ELSE ""),
                  TRUE,
                  "")

\* the result of a frame that continued, from the result of its recursive call
CombinedResult(depth, llmResponse, toolResults, continueResult) ==
    NPCTickResult(<<InferenceRound(depth + 1, llmResponse.Response, toolResults)>>
                      \o continueResult.Rounds,
                  InferenceHeader(depth + 1, llmResponse.Response)
                      \o (IF continueResult.LLMResponse # ""
                          THEN "\n" \o continueResult.LLMResponse ELSE ""),
                  continueResult.Success,
                  continueResult.ErrorMessage)

\* the recursive call returns to the frame that made it
ReturnToCaller ==
    /\ tick.pc = "return"
    /\ tick.frames # <<>>
    /\ LET frame == tick.frames[Len(tick.frames)] IN
       tick' = [tick EXCEPT
                  !.frames = SubSeq(@, 1, Len(@) - 1),
                  !.depth = @ - 1,
                  !.result = CombinedResult(tick.depth - 1, frame.llmResponse,
                                            frame.toolResults, tick.result)]
    /\ UNCHANGED <<refreshed, workers, npcs, procs, tools, handlers, storage, game, call, sessions, now, nextSweep, swept>>

\* ActForTick returns the result of the frame of depth 0
FinishTick ==
    /\ tick.pc = "return"
    /\ tick.frames = <<>>
    /\ tick' = [tick EXCEPT !.pc = "done"]
    /\ UNCHANGED <<refreshed, workers, npcs, procs, tools, handlers, storage, game, call, sessions, now, nextSweep, swept>>

Init == InitMain /\ InitSessions /\ InitTick

Next ==
    \/ \E n \in TickNPCs, reg \in TickRegistries : StartTick(n, reg)
    \/ \E msg \in ProviderErrors : GenerateFails(msg)
    \/ \E text \in Texts(tick.calls + 1), toolUses \in ProviderToolUses :
          GenerateResponds(text, toolUses)
    \/ ExecuteNextTool
    \/ ContinueThinking
    \/ BaseCase
    \/ ReturnToCaller
    \/ FinishTick

\* ticks, one after another, against the registry and the scratchpads
Spec == Init /\ [][Next]_vars

(***************************************************************************)
(* POST /npc/act: ActHandler resolves the tool registry of the tick from   *)
(* the request's session id and calls ActForTick, while other requests     *)
(* register and delete sessions and the cleanup goroutine sweeps.          *)
(***************************************************************************)
\* req.SessionID: none, or a session id
ActSessionIDs == {"", "s1"}

\* the tool lists the sessions of these requests are registered with
ActRegisterLists == {<<giveItemSession>>, <<speakSession>>}

\* the lists of invocations the provider answers these ticks with
ActProviderToolUses ==
    {<<>>,
     <<ToolUse("continue_thinking", Args0)>>,
     <<ToolUse("give_item", "item" :> "sword")>>,
     <<ToolUse("speak", "line" :> "hello")>>}

\* ActHandler that gives the tick no tool registry when the lookup fails
ActRegistry_NilOnError(sessionID, lookup) ==
    IF sessionID # ""
    THEN IF lookup.err # NoErr THEN NilRegistry ELSE CombinedRegistry(lookup.tools)
    ELSE BaseRegistry

\* the registry ActHandler puts in req.NPCTickInput.ToolRegistry, from what
\* GetSessionTools returned (lookup = <<>> when it was not called)
ActRegistry(sessionID, lookup) ==
    IF sessionID # ""
    THEN IF lookup.err # NoErr THEN BaseRegistry ELSE CombinedRegistry(lookup.tools)
    ELSE BaseRegistry

\* ActHandler up to its call of npc.ActForTick
ActHandler(n, sessionID) ==
    /\ tick.pc \in {"idle", "done"}
    /\ \E r \in (IF sessionID # "" THEN GetSessionToolsPure(sessions, sessionID, now)
                  ELSE {[tools |-> <<>>, err |-> NoErr, sessions |-> sessions]}) :
          /\ sessions' = r.sessions
          /\ tick' = [IdleTick EXCEPT !.pc = "generate", !.npc = n,
                                      !.input = NPCTickInput(<<>>, ActRegistry(sessionID, r))]
          /\ call' = Call("ActHandler", [npcID |-> n, sessionID |-> sessionID],
                          [tools |-> r.tools, err |-> r.err])
    /\ UNCHANGED <<refreshed, workers, npcs, procs, tools, handlers, storage, game, now, nextSweep, swept>>

InitAct == InitMain /\ InitSessions /\ InitTick

NextAct ==
    \/ \E n \in TickNPCs, id \in ActSessionIDs : ActHandler(n, id)
    \/ \E id \in ActSessionIDs \ {""}, ts \in ActRegisterLists : RegisterSession(id, ts)
    \/ \E id \in ActSessionIDs \ {""} : GetSessionTools(id)
    \/ \E id \in ActSessionIDs \ {""} : DeleteSession(id)
    \/ Sweep
    \/ AdvanceClock
    \/ \E msg \in {"llm provider unavailable"} : GenerateFails(msg)
    \/ \E text \in Texts(tick.calls + 1), toolUses \in ActProviderToolUses :
          GenerateResponds(text, toolUses)
    \/ ExecuteNextTool
    \/ ContinueThinking
    \/ BaseCase
    \/ ReturnToCaller
    \/ FinishTick

\* /npc/act requests, session registrations and deletions, and sweeps
SpecAct == InitAct /\ [][NextAct]_vars

(***************************************************************************)
(* The session manager under concurrent callers.  sm.mu is a sync.RWMutex: *)
(* Lock waits until no goroutine holds it, RLock until no goroutine holds  *)
(* it for writing.  A goroutine's procs entry says how it holds sm.mu      *)
(* ("w", "r" or "none") and where it stands: "lock" before it has the      *)
(* lock, "cs" inside an operation that took Lock, "put" inside the loop of  *)
(* RegisterSession (i tools of the call are in), and inside                *)
(* GetSessionTools "lookup", "writeLastUsed" and "copy" in turn.           *)
(***************************************************************************)
\* the session the concurrent callers work on and what they register it with
LockSessionIDs == {"s1"}
LockRegisterLists == {<<giveItemSession>>, <<speakSession, continueThinkingOther>>}

\* the operations that take sm.mu.Lock() and the one modelled that takes RLock()
ExclusiveOps == {"RegisterSession", "DeleteSession", "sweep"}
SharedOps == {"GetSessionTools"}

\* a handler goroutine calls an operation of the session manager
\* (RegisterSession with the tools ts)
Enter(g, op, sessionID, ts) ==
    /\ g # "cleanup"
    /\ procs[g].pc = "out"
    /\ procs' = [procs EXCEPT ![g] = [Outside EXCEPT !.op = op, !.sessionID = sessionID,
                                                      !.tools = ts, !.pc = "lock"]]
    /\ UNCHANGED <<refreshed, workers, npcs, tools, handlers, storage, game, call, sessions, now, nextSweep, swept, tick>>

\* for range ticker.C: the cleanup goroutine wakes up
TickerFires ==
    /\ procs["cleanup"].pc = "out"
    /\ now >= nextSweep
    /\ nextSweep' = now - (now % cleanupInterval) + cleanupInterval
    /\ procs' = [procs EXCEPT !["cleanup"] = [Outside EXCEPT !.op = "sweep", !.pc = "lock"]]
    /\ UNCHANGED <<refreshed, workers, npcs, tools, handlers, storage, game, call, sessions, now, swept, tick>>

\* sm.mu.Lock() returns
Lock(g) ==
    /\ procs[g].pc = "lock"
    /\ procs[g].op \in ExclusiveOps
    /\ \A h \in Goroutines : procs[h].lock = "none"
    /\ procs' = [procs EXCEPT ![g].lock = "w", ![g].pc = "cs"]
    /\ UNCHANGED <<refreshed, workers, npcs, tools, handlers, storage, game, call, sessions, now, nextSweep, swept, tick>>

\* sm.mu.RLock() returns
RLock(g) ==
    /\ procs[g].pc = "lock"
    /\ procs[g].op \in SharedOps
    /\ \A h \in Goroutines : procs[h].lock # "w"
    /\ procs' = [procs EXCEPT ![g].lock = "r", ![g].pc = "lookup"]
    /\ UNCHANGED <<refreshed, workers, npcs, tools, handlers, storage, game, call, sessions, now, nextSweep, swept, tick>>

\* RegisterSession that gives sm.mu back once the session is in the map
RegisterCreate_UnlockEarly(g) ==
    /\ procs[g].pc = "cs"
    /\ procs[g].op = "RegisterSession"
    /\ LET id == procs[g].sessionID
           session == IF id \in DOMAIN sessions
                      THEN [sessions[id] EXCEPT !.LastUsed = now]
                      ELSE Session(id, EmptyMap, now, now)
       IN  /\ sessions' = (id :> session) @@ sessions
           /\ swept' = swept \ {id}
           /\ refreshed' = (id :> now) @@ refreshed
    /\ procs' = [procs EXCEPT ![g].pc = "put", ![g].i = 0, ![g].lock = "none"]
    /\ UNCHANGED <<workers, npcs, tools, handlers, storage, game, call, now, nextSweep, tick>>

\* RegisterSession: the session of the map, created when there is none,
\* with LastUsed set
RegisterCreate(g) ==
    /\ procs[g].pc = "cs"
    /\ procs[g].op = "RegisterSession"
    /\ LET id == procs[g].sessionID
           session == IF id \in DOMAIN sessions
                      THEN [sessions[id] EXCEPT !.LastUsed = now]
                      ELSE Session(id, EmptyMap, now, now)
       IN  /\ sessions' = (id :> session) @@ sessions
           /\ swept' = swept \ {id}
           /\ refreshed' = (id :> now) @@ refreshed
    /\ procs' = [procs EXCEPT ![g].pc = "put", ![g].i = 0]
    /\ UNCHANGED <<workers, npcs, tools, handlers, storage, game, call, now, nextSweep, tick>>

\* RegisterSession: one turn of the loop session.Tools[tool.Name] = tool, or
\* the return after the last one, and Unlock
RegisterPut(g) ==
    /\ procs[g].pc = "put"
    /\ LET id == procs[g].sessionID
           ts == procs[g].tools
       IN  IF procs[g].i < Len(ts)
           THEN /\ sessions' = [sessions EXCEPT
                                   ![id].Tools = PutTools(@, <<ts[procs[g].i + 1]>>)]
                /\ procs' = [procs EXCEPT ![g].i = @ + 1]
                /\ UNCHANGED call
           ELSE /\ call' = Call("RegisterSession", [sessionID |-> id, tools |-> ts],
                                [err |-> NoErr])
                /\ procs' = [procs EXCEPT ![g] = Outside]
                /\ UNCHANGED sessions
    /\ UNCHANGED <<refreshed, workers, npcs, tools, handlers, storage, game, now, nextSweep, swept, tick>>

\* the body of DeleteSession or one sweep, then Unlock
ExclusiveDone(g) ==
    /\ procs[g].pc = "cs"
    /\ procs[g].op \in {"DeleteSession", "sweep"}
    /\ LET id == procs[g].sessionID IN
       CASE procs[g].op = "DeleteSession" ->
              /\ sessions' = [i \in DOMAIN sessions \ {id} |-> sessions[i]]
              /\ call' = Call("DeleteSession", [sessionID |-> id],
                              [err |-> IF id \in DOMAIN sessions THEN NoErr
                                       ELSE Err("session not found: " \o id)])
              /\ UNCHANGED swept
         [] procs[g].op = "sweep" ->
              /\ sessions' = [i \in {j \in DOMAIN sessions : ~Expired(sessions[j], now)} |->
                                 sessions[i]]
              /\ swept' = swept \cup {i \in DOMAIN sessions : Expired(sessions[i], now)}
              /\ call' = Call("Sweep", [at |-> now], EmptyMap)
    /\ procs' = [procs EXCEPT ![g] = Outside]
    /\ UNCHANGED <<refreshed, workers, npcs, tools, handlers, storage, game, now, nextSweep, tick>>

\* GetSessionTools: session, exists := sm.sessions[sessionID]; and, when it
\* exists, time.Now() for the assignment that follows
Lookup(g) ==
    /\ procs[g].pc = "lookup"
    /\ procs' = [procs EXCEPT ![g].pc = IF procs[g].sessionID \in DOMAIN sessions
                                        THEN "writeLastUsed" ELSE "unlock",
                              ![g].t = now]
    /\ refreshed' = IF procs[g].sessionID \in DOMAIN sessions
                    THEN (procs[g].sessionID :> now) @@ refreshed
                    ELSE refreshed
    /\ UNCHANGED <<workers, npcs, tools, handlers, storage, game, call, sessions, now, nextSweep, swept, tick>>

\* the goroutines that are writing LastUsed of the session g is writing it of
WritersWith(g) ==
    {h \in Goroutines : /\ procs[h].pc = "writeLastUsed"
                        /\ procs[h].sessionID = procs[g].sessionID}

\* GetSessionTools: session.LastUsed = time.Now().  Writes of several
\* goroutines that overlap are a data race: the field ends up with the time
\* of any of them.
WriteLastUsed(g) ==
    /\ procs[g].pc = "writeLastUsed"
    /\ \E h \in WritersWith(g) :
          sessions' = [sessions EXCEPT ![procs[g].sessionID].LastUsed = procs[h].t]
    /\ procs' = [procs EXCEPT ![g].pc = "copy"]
    /\ UNCHANGED <<refreshed, workers, npcs, tools, handlers, storage, game, call, now, nextSweep, swept, tick>>

\* GetSessionTools: the loop that copies session.Tools, and the return
CopyTools(g) ==
    /\ procs[g].pc = "copy"
    /\ \E order \in Perms(DOMAIN sessions[procs[g].sessionID].Tools) :
          call' = Call("GetSessionTools", [sessionID |-> procs[g].sessionID],
                       [tools |-> [i \in DOMAIN order |->
                                     sessions[procs[g].sessionID].Tools[order[i]]],
                        err |-> NoErr])
    /\ procs' = [procs EXCEPT ![g] = Outside]
    /\ UNCHANGED <<refreshed, workers, npcs, tools, handlers, storage, game, sessions, now, nextSweep, swept, tick>>

\* GetSessionTools: the return of the not-found error
ReturnNotFound(g) ==
    /\ procs[g].pc = "unlock"
    /\ call' = Call("GetSessionTools", [sessionID |-> procs[g].sessionID],
                    [tools |-> <<>>,
                     err |-> Err("session not found: " \o procs[g].sessionID)])
    /\ procs' = [procs EXCEPT ![g] = Outside]
    /\ UNCHANGED <<refreshed, workers, npcs, tools, handlers, storage, game, sessions, now, nextSweep, swept, tick>>

\* time passes
LockAdvanceClock ==
    /\ now + ClockStep <= MaxClock
    /\ now' = now + ClockStep
    /\ UNCHANGED <<refreshed, workers, npcs, tools, handlers, storage, game, call, sessions, nextSweep, swept, tick, procs>>

InitLock == InitRegistry /\ InitSessions /\ InitTick

NextLock ==
    \/ \E g \in Goroutines, op \in (ExclusiveOps \cup SharedOps) \ {"sweep"},
          id \in LockSessionIDs :
             \E ts \in (IF op = "RegisterSession" THEN LockRegisterLists ELSE {<<>>}) :
                Enter(g, op, id, ts)
    \/ TickerFires
    \/ \E g \in Goroutines : Lock(g)
    \/ \E g \in Goroutines : RLock(g)
    \/ \E g \in Goroutines : RegisterCreate(g)
    \/ \E g \in Goroutines : RegisterPut(g)
    \/ \E g \in Goroutines : ExclusiveDone(g)
    \/ \E g \in Goroutines : Lookup(g)
    \/ \E g \in Goroutines : WriteLastUsed(g)
    \/ \E g \in Goroutines : CopyTools(g)
    \/ \E g \in Goroutines : ReturnNotFound(g)
    \/ LockAdvanceClock

\* the session manager's operations, interleaved statement by statement
SpecLock == InitLock /\ [][NextLock]_vars

(***************************************************************************)
(* The tick's properties.                                                  *)
(***************************************************************************)

\* C1: the result of every tick, failed or not, has at most
\* maxThinkingDepth + 1 = 4 rounds, and the i-th round has round number i.
C1_RoundsBoundedContiguous ==
    tick.pc = "done" =>
        /\ Len(tick.result.Rounds) <= maxThinkingDepth + 1
        /\ \A i \in DOMAIN tick.result.Rounds : tick.result.Rounds[i].RoundNumber = i

\* C1: a tick ended with four rounds, the last of which asked to continue
C1_Witness ==
    /\ tick.pc = "done"
    /\ Len(tick.result.Rounds) = maxThinkingDepth + 1
    /\ UsedContinueThinking(tick.llmResponse)
    /\ tick.result.Success

\* C2 as stated: the result of every tick has between 1 and 4 rounds.
C2_AtLeastOneRound ==
    tick.pc = "done" =>
        /\ Len(tick.result.Rounds) >= 1
        /\ Len(tick.result.Rounds) <= maxThinkingDepth + 1

\* C2 as amended: the result of a tick has between 0 and 4 rounds; it has no
\* round exactly when the provider call of the first round failed, and then
\* success is false; a result with success=true has at least one round.
C2_RoundsUnlessFirstCallFails ==
    tick.pc = "done" =>
        /\ Len(tick.result.Rounds) <= maxThinkingDepth + 1
        /\ (Len(tick.result.Rounds) = 0) <=> (tick.failedAt = 0)
        /\ tick.failedAt = 0 => ~tick.result.Success
        /\ tick.result.Success => Len(tick.result.Rounds) >= 1

\* C2: a tick ended whose first provider call failed
C2_Witness ==
    /\ tick.pc = "done"
    /\ tick.failedAt = 0
    /\ tick.result.Rounds = <<>>
    /\ ~tick.result.Success

\* C3: a tick whose tool registry is nil never starts a second round, and
\* when its provider call succeeds its result has success=true and one round.
C3_NilRegistryNeverContinues ==
    tick.input.ToolRegistry.kind = "nil" =>
        /\ tick.depth = 0
        /\ tick.frames = <<>>
        /\ tick.calls <= 1
        /\ (tick.pc = "done" /\ tick.failedAt = -1) =>
              /\ tick.result.Success
              /\ Len(tick.result.Rounds) = 1

\* C3: a tick without tools ended whose response named continue_thinking
C3_Witness ==
    /\ tick.pc = "done"
    /\ tick.input.ToolRegistry.kind = "nil"
    /\ UsedContinueThinking(tick.llmResponse)
    /\ tick.result.Success
    /\ Len(tick.result.Rounds) = 1

\* C4: when the tools of a round at depth d have been executed, the next
\* step is the provider call of a round at depth d+1 exactly when the
\* response named continue_thinking, d < 3 and a tool registry was given,
\* whatever the tool executions of the round returned.
C4_ContinuesExactlyWhen ==
    [][(tick.pc = "tools" /\ tick'.pc # "tools")
          => ((tick'.pc = "generate" /\ tick'.depth = tick.depth + 1)
                <=> /\ UsedContinueThinking(tick.llmResponse)
                    /\ tick.depth < maxThinkingDepth
                    /\ tick.input.ToolRegistry.kind # "nil")]_vars

\* C4: a round continued all of whose tool executions failed, that of
\* continue_thinking among them
C4_Witness ==
    /\ tick.pc = "generate"
    /\ tick.depth >= 1
    /\ LET results == tick.frames[Len(tick.frames)].toolResults IN
          /\ \E i \in DOMAIN results : results[i].ToolName = "continue_thinking"
          /\ \A i \in DOMAIN results : ~results[i].Success

\* C14: under a tool registry the loop executes the invocations of the
\* response one at a time from the first to the last, whatever the earlier
\* ones returned: each turn appends the result of the next invocation, with
\* its name and arguments, the loop ends with as many results as invocations,
\* and these results, in this order, are the round's ToolsUsed.
C14_ToolOutcomesInOrder ==
    [][/\ (tick.pc = "tools" /\ tick'.pc = "tools" /\ tick' # tick) =>
            LET k == Len(tick.toolResults) + 1 IN
            /\ k <= Len(tick.llmResponse.ToolUses)
            /\ Len(tick'.toolResults) = k
            /\ SubSeq(tick'.toolResults, 1, k - 1) = tick.toolResults
            /\ tick'.toolResults[k].ToolName = tick.llmResponse.ToolUses[k].ToolName
            /\ tick'.toolResults[k].Args = tick.llmResponse.ToolUses[k].ToolArgs
       /\ (tick.pc = "tools" /\ tick'.pc # "tools" /\ tick.input.ToolRegistry.kind # "nil") =>
            Len(tick.toolResults) = Len(tick.llmResponse.ToolUses)
       /\ (tick.pc = "tools" /\ tick'.pc = "return") =>
            tick'.result.Rounds[1].ToolsUsed = tick.toolResults
       /\ (tick.pc = "return" /\ tick'.pc = "return" /\ tick' # tick) =>
            /\ tick'.result.Rounds[1].ToolsUsed = tick.frames[Len(tick.frames)].toolResults
            /\ Tail(tick'.result.Rounds) = tick.result.Rounds]_vars

\* C14: a round ended whose first invocation failed (write_scratchpad
\* without its key) and whose second stored k1
C14_Witness ==
    /\ tick.pc = "done"
    /\ Len(tick.result.Rounds) = 1
    /\ Len(tick.result.Rounds[1].ToolsUsed) = 2
    /\ ~tick.result.Rounds[1].ToolsUsed[1].Success
    /\ tick.result.Rounds[1].ToolsUsed[2].Success
    /\ tick.result.Rounds[1].ToolsUsed[2].Args = ArgsKV
    /\ "Elara" \in DOMAIN storage
    /\ "k1" \in DOMAIN storage["Elara"]

\* C15: in the result of a tick, every outcome of an invocation of a global
\* tool (not shadowed by a session tool) that lacked a required parameter has
\* success=false and, as message and as error, "missing required parameter: "
\* with the name of a parameter that was missing; and the result has
\* success=true unless a provider call of the tick failed.
C15_MissingParameterNotFatal ==
    tick.pc = "done" =>
        /\ (tick.failedAt = -1) => (tick.result.Success /\ tick.result.ErrorMessage = "")
        /\ \A k \in DOMAIN tick.result.Rounds :
              \A i \in DOMAIN tick.result.Rounds[k].ToolsUsed :
                  LET r == tick.result.Rounds[k].ToolsUsed[i] IN
                  (/\ r.ToolName \in DOMAIN tools
                   /\ r.ToolName \notin Names(tick.input.ToolRegistry.sessionTools)
                   /\ MissingRequired(tools[r.ToolName], r.Args) # {}) =>
                      /\ ~r.Success
                      /\ \E n \in MissingRequired(tools[r.ToolName], r.Args) :
                            /\ r.Response = "missing required parameter: " \o n
                            /\ r.Error = "missing required parameter: " \o n

\* C15: a tick ended with success=true whose only invocation was
\* write_scratchpad without its key
C15_Witness ==
    /\ tick.pc = "done"
    /\ tick.result.Success
    /\ Len(tick.result.Rounds) = 1
    /\ tick.result.Rounds[1].ToolsUsed
          = <<NPCToolResult("write_scratchpad", "value" :> "v1", FALSE,
                            "missing required parameter: key",
                            "missing required parameter: key")>>
    /\ storage = EmptyMap

\* C16: the result of a tick that called the provider at least twice: its
\* k-th round has number k and the text of the k-th response; its text is
\* the rounds' texts in round order, each under "=== Inference k ===" and
\* joined by newlines; success is true exactly when no provider call
\* failed, and then there is a round for every call and no error message;
\* otherwise the last call failed, it has no round, and the error message
\* is that of this call.
C16_RoundsComposedInOrder ==
    (tick.pc = "done" /\ tick.calls >= 2) =>
        LET rs == tick.result.Rounds
            n == Len(rs)
            text[k \in 1..n] ==
                IF k = n THEN InferenceHeader(k, rs[k].LLMResponse)
                ELSE InferenceHeader(k, rs[k].LLMResponse) \o "\n" \o text[k + 1]
        IN  /\ n >= 1
            /\ \A k \in 1..n : /\ rs[k].RoundNumber = k
                                /\ rs[k].LLMResponse = "reply " \o ToString(k)
            /\ tick.result.LLMResponse = text[1]
            /\ tick.result.Success <=> tick.failedAt = -1
            /\ tick.result.Success => (n = tick.calls /\ tick.result.ErrorMessage = "")
            /\ ~tick.result.Success =>
                  /\ n = tick.calls - 1
                  /\ \E msg \in ProviderErrors :
                        tick.result.ErrorMessage = "Error calling LLM: " \o msg

\* C16: a tick of two rounds ended, the first invoking continue_thinking and
\* the second nothing
C16_Witness ==
    /\ tick.pc = "done"
    /\ Len(tick.result.Rounds) = 2
    /\ tick.result.Rounds[1].ToolsUsed[1].ToolName = "continue_thinking"
    /\ tick.result.Rounds[2].ToolsUsed = <<>>
    /\ tick.result.LLMResponse
          = "=== Inference 1 ===\nreply 1\n=== Inference 2 ===\nreply 2"
    /\ tick.result.Success

\* C17: every frame calls the provider once and goes on; once a provider
\* call of a tick has failed, the tick calls the provider no more, executes
\* no tool and changes nothing the tools act on, and only returns; its
\* result has success=false and the error message; the provider was called
\* once per round of the result, and once more when a call failed.
C17_ProviderFailureNotRetried ==
    [][/\ (tick.pc = "generate" /\ tick' # tick) =>
            /\ tick'.calls = tick.calls + 1
            /\ tick'.pc # "generate"
       /\ (tick.failedAt # -1 /\ tick.pc # "done") =>
            /\ tick'.calls = tick.calls
            /\ tick'.pc \in {"return", "done"}
            /\ tick'.toolResults = tick.toolResults
            /\ storage' = storage
            /\ game' = game
       /\ tick'.pc = "done" =>
            /\ tick'.calls = Len(tick'.result.Rounds) + (IF tick'.failedAt # -1 THEN 1 ELSE 0)
            /\ tick'.failedAt # -1 =>
                  /\ ~tick'.result.Success
                  /\ \E msg \in ProviderErrors :
                        tick'.result.ErrorMessage = "Error calling LLM: " \o msg]_vars

\* C17: a tick ended whose second provider call failed with a retryable
\* error (rate limited): two calls, one round
C17_Witness ==
    /\ tick.pc = "done"
    /\ tick.failedAt = 1
    /\ tick.calls = 2
    /\ Len(tick.result.Rounds) = 1
    /\ ~tick.result.Success
    /\ tick.result.ErrorMessage = "Error calling LLM: llm provider rate limited"

\* C28: a provider call that fails at depth d gives its frame a result
\* without rounds, success=false and the call's error message; every frame
\* that returns above it hands success and message on as they are; and the
\* tick's result has exactly d rounds, numbered 1..d and each marked
\* successful (none when d = 0).
C28_FailureAtDepthKeepsEarlierRounds ==
    [][/\ (tick.pc = "generate" /\ tick.failedAt = -1 /\ tick'.failedAt # -1) =>
            /\ tick'.failedAt = tick.depth
            /\ tick'.result.Rounds = <<>>
            /\ ~tick'.result.Success
            /\ \E msg \in ProviderErrors :
                  tick'.result.ErrorMessage = "Error calling LLM: " \o msg
       /\ (tick.pc = "return" /\ tick.failedAt # -1) =>
            /\ tick'.result.ErrorMessage = tick.result.ErrorMessage
            /\ tick'.result.Success = tick.result.Success
            /\ tick'.failedAt = tick.failedAt
       /\ (tick'.pc = "done" /\ tick'.failedAt # -1) =>
            /\ Len(tick'.result.Rounds) = tick'.failedAt
            /\ \A i \in 1..tick'.failedAt :
                  /\ tick'.result.Rounds[i].RoundNumber = i
                  /\ tick'.result.Rounds[i].Success
                  /\ tick'.result.Rounds[i].ErrorMessage = ""]_vars

\* C28: a tick ended whose third provider call timed out: two rounds, both
\* marked successful, under a result that failed with the timeout's message
C28_Witness ==
    /\ tick.pc = "done"
    /\ tick.failedAt = 2
    /\ Len(tick.result.Rounds) = 2
    /\ tick.result.Rounds[1].Success
    /\ tick.result.Rounds[2].Success
    /\ ~tick.result.Success
    /\ tick.result.ErrorMessage = "Error calling LLM: llm request timeout"

RECURSIVE OutcomeCount(_)
\* the number of tool outcomes in a list of rounds
OutcomeCount(rounds) ==
    IF rounds = <<>> THEN 0
    ELSE Len(Head(rounds).ToolsUsed) + OutcomeCount(Tail(rounds))

\* C29: the result of a tick has success=false exactly when its error message
\* is not empty; under a tool registry every invocation the provider made has
\* an outcome in some round; an execution that cannot but fail is recorded
\* with success=false, and with its error when it returned one; and no
\* outcome has both an error and success=true.
C29_FailuresNeverSwallowed ==
    [][/\ tick'.pc = "done" =>
            /\ (~tick'.result.Success) <=> (tick'.result.ErrorMessage # "")
            /\ tick'.input.ToolRegistry.kind # "nil" =>
                  OutcomeCount(tick'.result.Rounds) = tick'.uses
            /\ \A i \in DOMAIN tick'.result.Rounds :
                  \A j \in DOMAIN tick'.result.Rounds[i].ToolsUsed :
                     tick'.result.Rounds[i].ToolsUsed[j].Error # ""
                        => ~tick'.result.Rounds[i].ToolsUsed[j].Success
       /\ (tick.pc = "tools" /\ Len(tick'.toolResults) = Len(tick.toolResults) + 1) =>
            LET toolUse == tick.llmResponse.ToolUses[Len(tick.toolResults) + 1]
                outs == ProviderExecuteTool(tick.input.ToolRegistry, tick.npc, toolUse,
                                            world, now)
                outcome == tick'.toolResults[Len(tick'.toolResults)]
            IN  /\ (\A o \in outs : o.err # NoErr \/ ~o.res.Success) => ~outcome.Success
                /\ (\A o \in outs : o.err # NoErr) => outcome.Error # ""]_vars

\* C29: a tick ended with success=true and no error message, one of whose
\* outcomes is the failed execution of give_item, a tool the registry lacks
C29_Witness ==
    /\ tick.pc = "done"
    /\ tick.result.Success
    /\ tick.result.ErrorMessage = ""
    /\ tick.uses = 2
    /\ \E j \in DOMAIN tick.result.Rounds[1].ToolsUsed :
          /\ tick.result.Rounds[1].ToolsUsed[j].ToolName = "give_item"
          /\ ~tick.result.Rounds[1].ToolsUsed[j].Success
          /\ tick.result.Rounds[1].ToolsUsed[j].Error = "unknown tool: give_item"

\* C31: the execution of a tool name that the tick's tool set does not hold
\* runs no handler, changes nothing and returns a result without success
\* and the error "unknown tool: <name>"; the tick records it as a failed
\* outcome with that error text and stays in its loop over the invocations;
\* a tick none of whose provider calls failed has executed every invocation
\* of its last round and has success=true.
C31_UnknownToolFailsOneInvocation ==
    [][/\ (tick.pc = "tools" /\ Len(tick'.toolResults) = Len(tick.toolResults) + 1) =>
            LET toolUse == tick.llmResponse.ToolUses[Len(tick.toolResults) + 1]
                name == toolUse.ToolName
                outcome == tick'.toolResults[Len(tick'.toolResults)]
            IN  (name \notin DOMAIN handlers \cup Names(tick.input.ToolRegistry.sessionTools)) =>
                   /\ \A o \in ExecuteTool(registry, tick.npc, toolUse, world, now) :
                         /\ ~o.ran
                         /\ ~o.res.Success
                         /\ o.err = Err("unknown tool: " \o name)
                         /\ o.world = world
                   /\ outcome = NPCToolResult(name, toolUse.ToolArgs, FALSE,
                                              "unknown tool: " \o name, "unknown tool: " \o name)
                   /\ storage' = storage
                   /\ game' = game
                   /\ tick'.pc = "tools"
       /\ (tick'.pc = "done" /\ tick'.failedAt = -1) =>
            /\ tick'.result.Success
            /\ tick'.input.ToolRegistry.kind # "nil" =>
                  Len(tick'.toolResults) = Len(tick'.llmResponse.ToolUses)]_vars

\* C31: a tick ended with success=true whose only round has the failed
\* outcome of give_item, unknown to the global registry, and after it the
\* outcome of a write_scratchpad that stored its value
C31_Witness ==
    /\ tick.pc = "done"
    /\ tick.input.ToolRegistry = BaseRegistry
    /\ tick.result.Success
    /\ Len(tick.result.Rounds) = 1
    /\ Len(tick.result.Rounds[1].ToolsUsed) = 2
    /\ tick.result.Rounds[1].ToolsUsed[1].ToolName = "give_item"
    /\ tick.result.Rounds[1].ToolsUsed[1].Error = "unknown tool: give_item"
    /\ ~tick.result.Rounds[1].ToolsUsed[1].Success
    /\ tick.result.Rounds[1].ToolsUsed[2].ToolName = "write_scratchpad"
    /\ tick.result.Rounds[1].ToolsUsed[2].Success

\* C18: the result of a tick in which the provider invoked a tool name that
\* the tool set does not hold has success=false and an error message.
C18_UnknownToolFailsTick ==
    tick.pc = "done" =>
        \A k \in DOMAIN tick.result.Rounds :
            \A i \in DOMAIN tick.result.Rounds[k].ToolsUsed :
                LET r == tick.result.Rounds[k].ToolsUsed[i] IN
                r.Error = "unknown tool: " \o r.ToolName =>
                    (~tick.result.Success /\ tick.result.ErrorMessage # "")

\* C20: a tick calls the provider at most 3 times and its result has at
\* most 3 rounds.
C20_AtMostThreeRounds ==
    /\ tick.calls <= 3
    /\ tick.pc = "done" => Len(tick.result.Rounds) <= 3

(***************************************************************************)
(* The registry's properties.                                              *)
(***************************************************************************)

\* C5: RegisterTool with a name already in the registry (continue_thinking
\* included) returns an error and leaves the declarations and the handler
\* bindings as they were.
C5_RegisterExistingRejected ==
    [][(call'.op = "RegisterTool" /\ call'.arg.tool.Name \in DOMAIN tools)
          => /\ call'.out.err # NoErr
             /\ tools' = tools
             /\ handlers' = handlers]_vars

\* C5: a RegisterTool of another continue_thinking declaration was rejected
C5_Witness ==
    /\ call.op = "RegisterTool"
    /\ call.arg.tool = continueThinkingOther
    /\ call.out.err # NoErr
    /\ tools["continue_thinking"] = continueThinkingTool
    /\ handlers["continue_thinking"] = "continueThinkingHandler"

\* C6: ExecuteTool on a registered tool with a required parameter missing
\* returns success=false, invokes no handler and changes nothing the
\* handlers act on.
C6_MissingRequiredNoHandler ==
    [][(/\ call'.op = "ExecuteTool"
        /\ call'.arg.toolUse.ToolName \in DOMAIN handlers
        /\ MissingRequired(tools[call'.arg.toolUse.ToolName], call'.arg.toolUse.ToolArgs) # {})
          => /\ ~call'.out.res.Success
             /\ ~call'.out.ran
             /\ storage' = storage
             /\ game' = game]_vars

\* C6: speak, bound to a game handler, was executed without its text
C6_Witness ==
    /\ call.op = "ExecuteTool"
    /\ call.arg.toolUse = ToolUse("speak", Args0)
    /\ "speak" \in DOMAIN handlers
    /\ handlers["speak"] = "gameHandler"
    /\ ~call.out.res.Success
    /\ game = {}

\* C7: ExecuteTool on a registered tool with an argument the tool does not
\* declare returns success=false and invokes no handler, also when every
\* required parameter is there.
C7_UnexpectedArgNoHandler ==
    [][(/\ call'.op = "ExecuteTool"
        /\ call'.arg.toolUse.ToolName \in DOMAIN handlers
        /\ Unexpected(tools[call'.arg.toolUse.ToolName], call'.arg.toolUse.ToolArgs) # {})
          => /\ ~call'.out.res.Success
             /\ ~call'.out.ran
             /\ storage' = storage
             /\ game' = game]_vars

\* C7: write_scratchpad was executed with key, value and an undeclared argument
C7_Witness ==
    /\ call.op = "ExecuteTool"
    /\ call.arg.toolUse = ToolUse("write_scratchpad", ArgsKV @@ ("extra" :> "x"))
    /\ "write_scratchpad" \in DOMAIN handlers
    /\ tools["write_scratchpad"] = writeToolDef
    /\ ~call.out.res.Success
    /\ storage = EmptyMap

\* C8: the list a combined registry's GetTools returns has one declaration
\* per name, and for a name the session declares it is the session's.
C8_CombinedToolsUniqueSessionWins ==
    call.op = "CombinedGetTools" =>
        LET ts == call.out.tools
            st == call.arg.sessionTools
        IN  /\ \A i, j \in DOMAIN ts : ts[i].Name = ts[j].Name => i = j
            /\ \A i \in DOMAIN ts, k \in DOMAIN st : ts[i].Name = st[k].Name => ts[i] = st[k]

\* C9: a combined registry's ExecuteTool of a name the session declares
\* returns success=true with data that marks the call as the game engine's
\* and carries the name and the arguments as they came; no handler runs and
\* nothing changes, whatever the base registry binds to that name.
C9_SessionToolDeferred ==
    [][(/\ call'.op = "CombinedExecuteTool"
        /\ call'.arg.toolUse.ToolName \in Names(call'.arg.sessionTools))
          => /\ call'.out.res.Success
             /\ call'.out.err = NoErr
             /\ call'.out.res.Data = [session_tool |-> TRUE,
                                      tool_name |-> call'.arg.toolUse.ToolName,
                                      args |-> call'.arg.toolUse.ToolArgs]
             /\ ~call'.out.ran
             /\ storage' = storage
             /\ game' = game
             /\ tools' = tools
             /\ handlers' = handlers]_vars

\* C9: speak, a session tool and also bound to a game handler in the base
\* registry, was executed with arguments the base declaration accepts
C9_Witness ==
    /\ call.op = "CombinedExecuteTool"
    /\ call.arg.toolUse = ToolUse("speak", "text" :> "hello")
    /\ "speak" \in Names(call.arg.sessionTools)
    /\ "speak" \in DOMAIN handlers
    /\ handlers["speak"] = "gameHandler"
    /\ call.out.res.Success
    /\ game = {}

(***************************************************************************)
(* The session manager's properties.                                       *)
(***************************************************************************)

\* C10: a sweep deletes every session whose LastUsed is more than the
\* expiration window before the time of the sweep, and GetSessionTools for a
\* session a sweep deleted (and no one registered again) returns the
\* not-found error and no tools.
C10_SweepDeletesExpired ==
    [][/\ call'.op = "Sweep" =>
            \A id \in DOMAIN sessions :
                now - sessions[id].LastUsed > expirationDuration => id \notin DOMAIN sessions'
       /\ (call'.op = "GetSessionTools" /\ call'.arg.sessionID \in swept) =>
            /\ call'.out.err = Err("session not found: " \o call'.arg.sessionID)
            /\ call'.out.tools = <<>>
            /\ sessions' = sessions]_vars

\* C10: s1 was registered, the clock passed the window, a sweep deleted s1
\* and kept g1, and GetSessionTools("s1") failed
C10_Witness ==
    /\ call.op = "GetSessionTools"
    /\ call.arg.sessionID = "s1"
    /\ "s1" \in swept
    /\ call.out.err # NoErr
    /\ "g1" \in DOMAIN sessions
    /\ now - sessions["g1"].LastUsed = expirationDuration

\* C11: RegisterSession never fails; after it the session exists, holds for
\* every name of the call the last declaration the call gives that name and
\* for every other name the declaration it held before, and nothing else; its
\* LastUsed is the current time; every other session is as it was.
C11_RegisterSessionUpserts ==
    [][call'.op = "RegisterSession" =>
          LET id == call'.arg.sessionID
              ts == call'.arg.tools
              old == IF id \in DOMAIN sessions THEN sessions[id].Tools ELSE EmptyMap
              new == sessions'[id].Tools
              last(n) == CHOOSE i \in DOMAIN ts :
                             /\ ts[i].Name = n
                             /\ \A j \in DOMAIN ts : ts[j].Name = n => j <= i
          IN  /\ call'.out.err = NoErr
              /\ DOMAIN sessions' = DOMAIN sessions \cup {id}
              /\ DOMAIN new = DOMAIN old \cup Names(ts)
              /\ \A n \in DOMAIN new :
                    new[n] = IF n \in Names(ts) THEN ts[last(n)] ELSE old[n]
              /\ sessions'[id].LastUsed = now
              /\ \A other \in DOMAIN sessions \ {id} : sessions'[other] = sessions[other]]_vars

\* C11: a later RegisterSession of s1 replaced its speak and kept its give_item
C11_Witness ==
    /\ call.op = "RegisterSession"
    /\ call.arg = [sessionID |-> "s1", tools |-> <<speakSessionV2>>]
    /\ "s1" \in DOMAIN sessions
    /\ sessions["s1"].Tools = ("speak" :> speakSessionV2) @@ ("give_item" :> giveItemSession)
    /\ sessions["s1"].CreatedAt < sessions["s1"].LastUsed
    /\ sessions["s1"].LastUsed = now

(***************************************************************************)
(* The properties of /npc/act requests next to session operations.         *)
(***************************************************************************)

SessionToolNames(reg) == {reg.sessionTools[i].Name : i \in DOMAIN reg.sessionTools}

\* C26: the tool set a tick was given stays the tick's through every step and
\* every round, whatever registrations, deletions and sweeps do to the
\* sessions meanwhile: the request of every round presents the session
\* declarations of that set and no others, and an invocation is deferred to
\* the game engine exactly when that set holds its name as a session tool.
C26_ToolSetFixedDuringTick ==
    [][/\ (tick.pc \notin {"idle", "done"}) =>
            tick'.input.ToolRegistry = tick.input.ToolRegistry
       /\ (tick.pc = "generate" /\ tick' # tick) =>
            LET reg == tick.input.ToolRegistry
                global == {tools[n] : n \in DOMAIN tools}
                presented == DOMAIN tick'.llmRequest.Tools
            IN  /\ presented \ global = {reg.sessionTools[i] : i \in DOMAIN reg.sessionTools} \ global
                /\ \A d \in presented \ global :
                      tick'.llmRequest.Tools[d]
                          = Cardinality({i \in DOMAIN reg.sessionTools : reg.sessionTools[i] = d})
       /\ (tick.pc = "tools" /\ Len(tick'.toolResults) = Len(tick.toolResults) + 1) =>
            LET outcome == tick'.toolResults[Len(tick'.toolResults)]
                deferred == /\ outcome.Success
                            /\ outcome.Response = "Session tool '" \o outcome.ToolName
                                                     \o "' called - to be executed by game engine"
            IN  deferred <=> outcome.ToolName \in SessionToolNames(tick.input.ToolRegistry)]_vars

\* C26: the second round of a tick deferred give_item, which the session
\* declared when the tick began, while the session, registered again since,
\* declares speak and no give_item
C26_Witness ==
    /\ tick.pc = "done"
    /\ Len(tick.result.Rounds) = 2
    /\ Len(tick.result.Rounds[2].ToolsUsed) = 1
    /\ tick.result.Rounds[2].ToolsUsed[1].Response
          = "Session tool 'give_item' called - to be executed by game engine"
    /\ tick.llmRequest.Tools[giveItemSession] = 1
    /\ call.op = "RegisterSession"
    /\ "s1" \in DOMAIN sessions
    /\ "give_item" \notin DOMAIN sessions["s1"].Tools

\* C19: when ActHandler is given a session id the map does not hold, the
\* lookup fails and creates no session, the tick starts all the same and its
\* registry is the global one; and a tick with the global registry sends the
\* provider the global declarations, each once, and nothing else.
C19_MissingSessionFallsBack ==
    [][/\ (/\ tick.pc \in {"idle", "done"} /\ tick'.pc = "generate"
           /\ call'.arg.sessionID # ""
           /\ call'.arg.sessionID \notin DOMAIN sessions) =>
            /\ call'.out.err # NoErr
            /\ sessions' = sessions
            /\ tick'.input.ToolRegistry = BaseRegistry
       /\ (tick.pc = "generate" /\ tick.input.ToolRegistry = BaseRegistry /\ tick' # tick) =>
            tick'.llmRequest = [HasTools |-> TRUE,
                                Tools |-> [d \in {tools[n] : n \in DOMAIN tools} |-> 1]]]_vars

\* C19: a tick requested with the id of a swept session ran to its end on the
\* global registry, where give_item is unknown
C19_Witness ==
    /\ tick.pc = "done"
    /\ call.op = "ActHandler"
    /\ call.arg.sessionID = "s1"
    /\ "s1" \in swept
    /\ "s1" \notin DOMAIN sessions
    /\ tick.input.ToolRegistry = BaseRegistry
    /\ tick.result.Success
    /\ Len(tick.result.Rounds[1].ToolsUsed) = 1
    /\ tick.result.Rounds[1].ToolsUsed[1].Error = "unknown tool: give_item"

(***************************************************************************)
(* The properties of the session manager under concurrent callers.         *)
(***************************************************************************)
\* g is writing the session map, a session's declarations or its LastUsed
Writing(g) == procs[g].pc \in {"cs", "put", "writeLastUsed"}

\* g is reading or writing the session map or a session
Accessing(g) == procs[g].pc \in {"cs", "put", "lookup", "writeLastUsed", "copy"}

\* C13: a goroutine that is writing session manager state holds sm.mu for
\* writing, and no other goroutine is reading or writing that state then.
C13_WritesHoldLockExclusively ==
    \A g \in Goroutines :
        Writing(g) =>
            /\ procs[g].lock = "w"
            /\ \A h \in Goroutines \ {g} : ~Accessing(h)

\* the declarations of a list of tools
Decls(ts) == {ts[i] : i \in DOMAIN ts}

\* the declaration sets a session has between calls of RegisterSession: those
\* of one or more whole calls
WholeRegistrations ==
    {UNION {Decls(ts) : ts \in lists} : lists \in (SUBSET LockRegisterLists) \ {{}}}

\* C27: under any interleaving, what GetSessionTools returns for a session is
\* the declarations of whole calls of RegisterSession, each once (never those
\* of a call that has put only some of its tools), and the session is in the
\* map then: no sweep and no DeleteSession that completed has removed it.
C27_GetSessionToolsSeesWholeRegistrations ==
    [][\A g \in Goroutines :
          (procs[g].pc = "copy" /\ procs'[g].pc = "out") =>
              /\ call'.op = "GetSessionTools"
              /\ call'.out.err = NoErr
              /\ procs[g].sessionID \in DOMAIN sessions
              /\ procs[g].sessionID \notin swept
              /\ Decls(call'.out.tools) \in WholeRegistrations
              /\ Len(call'.out.tools) = Cardinality(Decls(call'.out.tools))]_vars

\* C27: GetSessionTools returned the declarations of both calls while another
\* goroutine, inside RegisterSession, waits for sm.mu with the next call
C27_Witness ==
    /\ call.op = "GetSessionTools"
    /\ call.out.err = NoErr
    /\ Decls(call.out.tools) = {giveItemSession, speakSession, continueThinkingOther}
    /\ \E h \in Goroutines : procs[h].op = "RegisterSession" /\ procs[h].pc = "lock"
    /\ \E h \in Goroutines : procs[h].op = "GetSessionTools" /\ procs[h].pc = "lock"

(***************************************************************************)
(* The LLM providers: the errors of internal/llm, IsRetryable, and what    *)
(* Generate returns for each behaviour of the backend.                     *)
(***************************************************************************)
\* a nil error
NilError == [type |-> "nil"]

\* errors.New(text); also any error that wraps nothing of this package
ErrorString(text) == [type |-> "errorString", text |-> text]

ErrProviderUnavailable == ErrorString("llm provider unavailable")
ErrBadRequest == ErrorString("bad request to llm provider")
ErrRateLimited == ErrorString("llm provider rate limited")
ErrTimeout == ErrorString("llm request timeout")
ErrUnauthorized == ErrorString("llm provider unauthorized")
ErrModelNotFound == ErrorString("llm model not found")

\* the error client.Do returns: a net.Error, with what its Timeout() says
NetError(text, timeout) == [type |-> "net.Error", text |-> text, timeout |-> timeout]

\* &ProviderError{Provider, Model, Err, Message}
NewProviderError(provider, model, err, message) ==
    [type |-> "ProviderError", Provider |-> provider, Model |-> model,
     Err |-> err, Message |-> message]

\* err.Unwrap(), nil for an error that wraps nothing
Unwrap(err) == IF err.type = "ProviderError" THEN err.Err ELSE NilError

RECURSIVE ErrorsIs(_, _)
\* errors.Is(err, target)
ErrorsIs(err, target) ==
    IF err = NilError THEN FALSE
    ELSE IF err = target THEN TRUE
    ELSE ErrorsIs(Unwrap(err), target)

RECURSIVE ErrorsAs(_)
\* errors.As(err, &provErr): the first *ProviderError of the chain, or nil
ErrorsAs(err) ==
    IF err = NilError THEN NilError
    ELSE IF err.type = "ProviderError" THEN err
    ELSE ErrorsAs(Unwrap(err))

\* the test on the error itself, not on what a ProviderError wraps
IsRetryable_NoUnwrap(err) ==
    err \in {ErrRateLimited, ErrTimeout, ErrProviderUnavailable}

\* IsRetryable(err)
IsRetryable(err) ==
    IF err = NilError THEN FALSE
    ELSE LET provErr == ErrorsAs(err)
             base == IF provErr # NilError THEN provErr.Err ELSE err
         IN  \/ ErrorsIs(base, ErrRateLimited)
             \/ ErrorsIs(base, ErrTimeout)
             \/ ErrorsIs(base, ErrProviderUnavailable)

\* the errors IsRetryable is asked about
BaseErrors ==
    {NilError, ErrProviderUnavailable, ErrBadRequest, ErrRateLimited, ErrTimeout,
     ErrUnauthorized, ErrModelNotFound, ErrorString("unexpected end of JSON input"),
     NetError("connection refused", FALSE)}

LLMProviders == {"ollama", "lmstudio"}
LLMModels == {"llama3", ""}
LLMMessages == {"", "rate limit exceeded"}

LLMErrors ==
    BaseErrors \cup
    {NewProviderError(p, m, e, msg) :
        p \in LLMProviders, m \in LLMModels, e \in BaseErrors, msg \in LLMMessages}

\* what the HTTP round trip to the backend does: the connection is refused,
\* the client's deadline elapses, or the backend answers with a status and a
\* body (JSON, something that is no JSON, or one that breaks off while it is
\* read)
Statuses == {200, 400, 401, 404, 418, 429, 500, 502, 503, 504}
Bodies == {"json", "garbage", "broken"}

Backends ==
    {[transport |-> t, status |-> 0, body |-> ""] : t \in {"refused", "deadline"}}
    \cup {[transport |-> "response", status |-> s, body |-> b] : s \in Statuses, b \in Bodies}

\* the error of client.Do
DoError(backend) ==
    IF backend.transport = "refused" THEN NetError("connection refused", FALSE)
    ELSE NetError("context deadline exceeded", TRUE)

\* message.content of the JSON the backend answers with: a completion under
\* status 200, an error object without a message under any other
Content(backend) == IF backend.status = 200 THEN "hello" ELSE ""

\* what Generate returns: the LLMResponse and the error
Generated(statusCode, response, err) ==
    [StatusCode |-> statusCode, Response |-> response, err |-> err]

\* Ollama.Generate of internal/llm/ollama.go, from client.Do on
OllamaGenerate(backend) ==
    IF backend.transport # "response" THEN Generated(0, "", DoError(backend))
    ELSE IF backend.body = "broken" THEN Generated(0, "", ErrorString("unexpected EOF"))
    ELSE IF backend.body = "garbage"
    THEN Generated(0, "", ErrorString("invalid character in JSON"))
    ELSE Generated(backend.status, Content(backend), NilError)

\* Ollama.Generate of the version with a client timeout, from client.Do on
OllamaGenerateTimeout(backend) ==
    IF backend.transport # "response"
    THEN IF DoError(backend).timeout
         THEN Generated(0, "", NewProviderError("ollama", "llama3", ErrTimeout,
                                                "request timed out"))
         ELSE Generated(0, "", NewProviderError("ollama", "llama3", ErrProviderUnavailable,
                                                "failed to connect to Ollama"))
    ELSE IF backend.body = "broken"
    THEN Generated(0, "", NewProviderError("ollama", "llama3", ErrorString("unexpected EOF"),
                                           "failed to read response"))
    ELSE IF backend.status # 200
    THEN LET baseErr ==
                 CASE backend.status = 400 -> ErrBadRequest
                   [] backend.status = 401 -> ErrUnauthorized
                   [] backend.status = 404 -> ErrModelNotFound
                   [] backend.status = 429 -> ErrRateLimited
                   [] backend.status \in {500, 502, 503} -> ErrProviderUnavailable
                   [] backend.status = 504 -> ErrTimeout
                   [] OTHER -> ErrorString("unexpected status code: "
                                               \o ToString(backend.status))
             message ==
                 CASE backend.status = 400 -> "invalid request parameters"
                   [] backend.status = 401 -> "authentication failed"
                   [] backend.status = 404 -> "model 'llama3' not found"
                   [] backend.status = 429 -> "rate limit exceeded"
                   [] backend.status \in {500, 502, 503} -> "Ollama service unavailable"
                   [] backend.status = 504 -> "gateway timeout"
                   [] OTHER -> backend.body
         IN  Generated(0, "", NewProviderError("ollama", "llama3", baseErr, message))
    ELSE IF backend.body = "garbage"
    THEN Generated(0, "", NewProviderError("ollama", "llama3",
                                           ErrorString("invalid character in JSON"),
                                           "invalid response format"))
    ELSE Generated(backend.status, Content(backend), NilError)

\* LMStudio.Generate, from client.Do on
LMStudioGenerate(backend) ==
    IF backend.transport # "response" THEN Generated(0, "", DoError(backend))
    ELSE IF backend.body = "broken" THEN Generated(0, "", ErrorString("unexpected EOF"))
    ELSE IF backend.status # 200
    THEN Generated(backend.status, "LM Studio error: " \o backend.body, NilError)
    ELSE IF backend.body = "garbage"
    THEN Generated(0, "", ErrorString("invalid character in JSON"))
    ELSE Generated(backend.status, Content(backend), NilError)

\* a call of IsRetryable
CallIsRetryable(err) ==
    /\ call' = Call("IsRetryable", [err |-> err], [retryable |-> IsRetryable(err)])
    /\ UNCHANGED <<refreshed, workers, npcs, procs, tools, handlers, storage, game, sessions, now,
                   nextSweep, swept, tick>>

\* a call of Generate on the Ollama provider of internal/llm/ollama.go, whose
\* client has no timeout: it returns when the backend has answered or refused
CallOllamaGenerate(backend) ==
    /\ backend.transport # "deadline"
    /\ call' = Call("Ollama.Generate", [backend |-> backend, client |-> "no timeout"],
                    OllamaGenerate(backend))
    /\ UNCHANGED <<refreshed, workers, npcs, procs, tools, handlers, storage, game, sessions, now,
                   nextSweep, swept, tick>>

\* a call of Generate on the Ollama provider whose client has a timeout
CallOllamaGenerateTimeout(backend) ==
    /\ call' = Call("Ollama.Generate", [backend |-> backend, client |-> "timeout"],
                    OllamaGenerateTimeout(backend))
    /\ UNCHANGED <<refreshed, workers, npcs, procs, tools, handlers, storage, game, sessions, now,
                   nextSweep, swept, tick>>

\* a call of Generate on the LM Studio provider, whose client has no timeout
CallLMStudioGenerate(backend) ==
    /\ backend.transport # "deadline"
    /\ call' = Call("LMStudio.Generate", [backend |-> backend, client |-> "no timeout"],
                    LMStudioGenerate(backend))
    /\ UNCHANGED <<refreshed, workers, npcs, procs, tools, handlers, storage, game, sessions, now,
                   nextSweep, swept, tick>>

InitLLM == InitMain /\ InitSessions /\ InitTick

NextLLM ==
    \/ \E err \in LLMErrors : CallIsRetryable(err)
    \/ \E backend \in Backends : CallOllamaGenerate(backend)
    \/ \E backend \in Backends : CallOllamaGenerateTimeout(backend)
    \/ \E backend \in Backends : CallLMStudioGenerate(backend)

\* calls of the llm package, one after another
SpecLLM == InitLLM /\ [][NextLLM]_vars

(***************************************************************************)
(* The LLM providers' properties.                                          *)
(***************************************************************************)
\* the kinds of error a caller can retry after
RetryableKinds == {ErrProviderUnavailable, ErrTimeout, ErrRateLimited}

\* C21: IsRetryable returns true exactly for the errors whose base kind is
\* provider-unavailable, timeout or rate-limited, and false for nil,
\* bad-request, unauthorized, model-not-found and unclassified errors; the
\* base of a ProviderError is the error it wraps, whatever its provider,
\* model and message are.
C21_IsRetryableByBaseKind ==
    call.op = "IsRetryable" =>
        LET err == call.arg.err
            base == IF err.type = "ProviderError" THEN err.Err ELSE err
        IN  call.out.retryable = (base \in RetryableKinds)

C21_Witness ==
    /\ call.op = "IsRetryable"
    /\ call.arg.err = NewProviderError("lmstudio", "", ErrTimeout, "rate limit exceeded")
    /\ call.out.retryable

\* the kind the provider's contract gives a failed call of Generate
ExpectedKind(backend) ==
    CASE backend.transport = "refused" -> ErrProviderUnavailable
      [] backend.transport = "deadline" -> ErrTimeout
      [] backend.status = 400 -> ErrBadRequest
      [] backend.status = 401 -> ErrUnauthorized
      [] backend.status = 404 -> ErrModelNotFound
      [] backend.status = 429 -> ErrRateLimited
      [] backend.status \in {500, 502, 503} -> ErrProviderUnavailable
      [] backend.status = 504 -> ErrTimeout
      [] OTHER -> NilError

\* the failed calls the contract names: a refused connection, an elapsed
\* deadline, and the statuses 400, 401, 404, 429, 500, 502, 503 and 504
NamedFailure(backend) == ExpectedKind(backend) # NilError

\* C22: the Ollama provider returns every failed call of Generate as an
\* error (never as a response with a nil error), of the kind its contract
\* gives: 400 bad-request, 401 unauthorized, 404 model-not-found, 429
\* rate-limited, 500/502/503 provider-unavailable, 504 timeout, a refused
\* connection provider-unavailable, an elapsed client deadline timeout.
C22_OllamaClassifiesFailures ==
    (call.op = "Ollama.Generate"
        /\ (NamedFailure(call.arg.backend) \/ call.arg.backend.status # 200)) =>
        /\ call.out.err # NilError
        /\ NamedFailure(call.arg.backend)
              => ErrorsIs(call.out.err, ExpectedKind(call.arg.backend))

\* C23: LMStudio.Generate returns a non-nil error of kind provider-unavailable
\* when the backend answers HTTP 500, and never returns a backend status
\* other than 200 with a nil error.
C23_LMStudioFailsOnBadStatus ==
    (call.op = "LMStudio.Generate" /\ call.arg.backend.transport = "response"
        /\ call.arg.backend.status # 200) =>
        /\ call.out.err # NilError
        /\ call.arg.backend.status = 500 => ErrorsIs(call.out.err, ErrProviderUnavailable)

(***************************************************************************)
(* The scratchpad storage under concurrent ticks.  s.mu guards the map of  *)
(* scratchpads and each scratchpad's mu guards its Entries; both are       *)
(* sync.RWMutex.  A goroutine's workers entry says how it holds s.mu (smu) *)
(* and the mu of the scratchpad it works on (pad, padmu), and where it     *)
(* stands: each pc names the statement it executes next.                   *)
(***************************************************************************)
PadNPCs == {"Elara", "Borin"}
PadKeys == {"k1"}
PadValue == "v1"

PadOps == {"handleWrite", "handleRead", "handleList", "handleDelete", "GetAllScratchpads"}

\* whether another goroutine holds s.mu, in one of the modes
SMuHeld(g, modes) == \E h \in PadGoroutines \ {g} : workers[h].smu \in modes

\* whether another goroutine holds the mu of the scratchpad, in one of the modes
PadMuHeld(g, pad, modes) ==
    \E h \in PadGoroutines \ {g} : workers[h].pad = pad /\ workers[h].padmu \in modes

\* the return of an operation that leaves the scratchpad's mu locked
Return_NoUnlock(g, res) ==
    /\ workers' = [workers EXCEPT ![g] = [Idle EXCEPT !.pad = workers[g].pad,
                                                      !.padmu = workers[g].padmu]]
    /\ call' = Call(workers[g].op, [npcID |-> workers[g].npcID, key |-> workers[g].key],
                    [Success |-> res.Success, Message |-> res.Message])

\* the goroutine returns from its operation
Return(g, res) ==
    /\ workers' = [workers EXCEPT ![g] = Idle]
    /\ call' = Call(workers[g].op, [npcID |-> workers[g].npcID, key |-> workers[g].key],
                    [Success |-> res.Success, Message |-> res.Message])

\* a tick's ExecuteTool calls a handler with well-formed arguments, or the
\* admin endpoint calls GetAllScratchpads
PadEnter(g, op, npcID, key) ==
    /\ workers[g].pc = "out"
    /\ workers' = [workers EXCEPT ![g] =
                      [Idle EXCEPT !.op = op,
                                   !.npcID = IF op = "GetAllScratchpads" THEN "" ELSE npcID,
                                   !.key = IF op \in {"handleList", "GetAllScratchpads"}
                                           THEN "" ELSE key,
                                   !.pc = IF op = "handleWrite" THEN "sLock" ELSE "sRLock"]]
    /\ UNCHANGED <<refreshed, npcs, procs, tools, handlers, storage, game, call, sessions, now, nextSweep,
                   swept, tick>>

\* getOrCreateScratchpad: s.mu.Lock()
SLock(g) ==
    /\ workers[g].pc = "sLock"
    /\ ~SMuHeld(g, {"r", "w"})
    /\ workers' = [workers EXCEPT ![g].smu = "w", ![g].pc = "getOrCreate"]
    /\ UNCHANGED <<refreshed, npcs, procs, tools, handlers, storage, game, call, sessions, now, nextSweep,
                   swept, tick>>

\* getOrCreateScratchpad: the lookup, the creation, and the deferred Unlock
GetOrCreate(g) ==
    /\ workers[g].pc = "getOrCreate"
    /\ storage' = getOrCreateScratchpad(storage, workers[g].npcID)
    /\ workers' = [workers EXCEPT ![g].smu = "none", ![g].pad = workers[g].npcID,
                                  ![g].pc = "padLock"]
    /\ UNCHANGED <<refreshed, npcs, procs, tools, handlers, game, call, sessions, now, nextSweep, swept,
                   tick>>

\* s.mu.RLock()
SRLock(g) ==
    /\ workers[g].pc = "sRLock"
    /\ ~SMuHeld(g, {"w"})
    /\ workers' = [workers EXCEPT
                      ![g].smu = "r",
                      ![g].pc = IF workers[g].op = "GetAllScratchpads" THEN "range"
                                ELSE "lookup",
                      ![g].todo = IF workers[g].op = "GetAllScratchpads" THEN DOMAIN storage
                                  ELSE {}]
    /\ UNCHANGED <<refreshed, npcs, procs, tools, handlers, storage, game, call, sessions, now, nextSweep,
                   swept, tick>>

\* scratchpad, exists := s.storage[npcID]; s.mu.RUnlock(); and the return of
\* handleRead and handleDelete when there is none (handleList tests exists
\* first in its condition, and returns as well)
PadLookup(g) ==
    /\ workers[g].pc = "lookup"
    /\ IF workers[g].npcID \in DOMAIN storage
       THEN /\ workers' = [workers EXCEPT
                             ![g].smu = "none",
                             ![g].pad = workers[g].npcID,
                             ![g].pc = CASE workers[g].op = "handleRead" -> "padRLock"
                                         [] workers[g].op = "handleList" -> "len"
                                         [] workers[g].op = "handleDelete" -> "padLock"]
            /\ UNCHANGED call
       ELSE IF workers[g].op = "handleList"
            THEN Return(g, ToolResult(TRUE, "No memories stored", NoData))
            ELSE Return(g, NoMemoryOutcome(workers[g].key, world).res)
    /\ UNCHANGED <<refreshed, npcs, procs, tools, handlers, storage, game, sessions, now, nextSweep, swept,
                   tick>>

\* handleList: len(scratchpad.Entries) == 0, evaluated before scratchpad.mu is
\* taken.  While another goroutine writes the map the read races with it, and
\* what it sees is not defined: either answer may come out.
ReadLen(g) ==
    /\ workers[g].pc = "len"
    /\ LET racing == \E h \in PadGoroutines \ {g} :
                         workers[h].pad = workers[g].pad /\ workers[h].pc \in {"write", "delete"}
       IN  \E empty \in BOOLEAN :
              /\ ~racing => empty = (DOMAIN storage[workers[g].pad] = {})
              /\ IF empty
                 THEN Return(g, ToolResult(TRUE, "No memories stored", NoData))
                 ELSE /\ workers' = [workers EXCEPT ![g].pc = "padRLock"]
                      /\ UNCHANGED call
    /\ UNCHANGED <<refreshed, npcs, procs, tools, handlers, storage, game, sessions, now, nextSweep, swept,
                   tick>>

\* scratchpad.mu.Lock()
PadLock(g) ==
    /\ workers[g].pc = "padLock"
    /\ ~PadMuHeld(g, workers[g].pad, {"r", "w"})
    /\ workers' = [workers EXCEPT
                      ![g].padmu = "w",
                      ![g].pc = IF workers[g].op = "handleWrite" THEN "write" ELSE "delete"]
    /\ UNCHANGED <<refreshed, npcs, procs, tools, handlers, storage, game, call, sessions, now, nextSweep,
                   swept, tick>>

\* scratchpad.mu.RLock()
PadRLock(g) ==
    /\ workers[g].pc = "padRLock"
    /\ ~PadMuHeld(g, workers[g].pad, {"w"})
    /\ workers' = [workers EXCEPT
                      ![g].padmu = "r",
                      ![g].pc = CASE workers[g].op = "handleRead" -> "read"
                                  [] workers[g].op = "handleList" -> "list"
                                  [] workers[g].op = "GetAllScratchpads" -> "copy"]
    /\ UNCHANGED <<refreshed, npcs, procs, tools, handlers, storage, game, call, sessions, now, nextSweep,
                   swept, tick>>

\* the rest of a handler, under scratchpad.mu: it reads or writes Entries,
\* returns, and the deferred unlock runs
Access(g) ==
    /\ workers[g].pc \in {"write", "read", "list", "delete"}
    /\ LET args == IF workers[g].op = "handleWrite"
                   THEN ("key" :> workers[g].key) @@ ("value" :> PadValue)
                   ELSE IF workers[g].op = "handleList" THEN EmptyMap
                   ELSE "key" :> workers[g].key
       IN  \E o \in CallHandler(workers[g].op, workers[g].npcID, args, world, now) :
              /\ storage' = o.world.storage
              /\ Return(g, o.res)
    /\ UNCHANGED <<refreshed, npcs, procs, tools, handlers, game, sessions, now, nextSweep, swept, tick>>

\* GetAllScratchpads: the next scratchpad of the range over s.storage, or the
\* return and the deferred s.mu.RUnlock()
Range(g) ==
    /\ workers[g].pc = "range"
    /\ IF workers[g].todo = {}
       THEN /\ workers' = [workers EXCEPT ![g] = Idle]
            /\ call' = Call("GetAllScratchpads", EmptyMap, workers[g].result)
       ELSE /\ \E pad \in workers[g].todo :
                  workers' = [workers EXCEPT ![g].pad = pad, ![g].pc = "padRLock"]
            /\ UNCHANGED call
    /\ UNCHANGED <<refreshed, npcs, procs, tools, handlers, storage, game, sessions, now, nextSweep, swept,
                   tick>>

\* GetAllScratchpads: one scratchpad's entries, under its mu
Copy(g) ==
    /\ workers[g].pc = "copy"
    /\ LET pad == workers[g].pad IN
       workers' = [workers EXCEPT
                      ![g].result = (pad :> [entries |-> storage[pad],
                                             count |-> Cardinality(DOMAIN storage[pad])]) @@ @,
                      ![g].padmu = "none",
                      ![g].pad = "",
                      ![g].todo = @ \ {pad},
                      ![g].pc = "range"]
    /\ UNCHANGED <<refreshed, npcs, procs, tools, handlers, storage, game, call, sessions, now, nextSweep,
                   swept, tick>>

InitPad == InitMain /\ InitSessions /\ InitTick

NextPad ==
    \E g \in PadGoroutines :
        \/ \E op \in PadOps, npcID \in PadNPCs, key \in PadKeys : PadEnter(g, op, npcID, key)
        \/ SLock(g)
        \/ GetOrCreate(g)
        \/ SRLock(g)
        \/ PadLookup(g)
        \/ ReadLen(g)
        \/ PadLock(g)
        \/ PadRLock(g)
        \/ Access(g)
        \/ Range(g)
        \/ Copy(g)

\* two goroutines in the scratchpad storage at a time
SpecPad == InitPad /\ [][NextPad]_vars

(***************************************************************************)
(* The scratchpad storage's properties.                                    *)
(***************************************************************************)
\* the statement the goroutine executes next reads or writes the Entries of
\* the scratchpad it works on
AccessesEntries(g) == workers[g].pc \in {"len", "write", "read", "list", "delete", "copy"}

WritesEntries(g) == workers[g].pc \in {"write", "delete"}

\* C24: every read and every write of a scratchpad's Entries, by a handler or
\* by GetAllScratchpads, happens while the goroutine holds that scratchpad's
\* mu (for writing when it writes), so no access without the lock ever stands
\* next to a write of the same Entries by another goroutine.
C24_EntriesAccessedUnderLock ==
    \A g \in PadGoroutines :
        /\ AccessesEntries(g) => workers[g].padmu \in {"r", "w"}
        /\ WritesEntries(g) => workers[g].padmu = "w"
        /\ \A h \in PadGoroutines \ {g} :
              (AccessesEntries(g) /\ WritesEntries(h) /\ workers[g].pad = workers[h].pad)
                  => workers[g].padmu # "none"

(***************************************************************************)
(* POST /npc/register and POST /npc/act by NPC id: NPCStorage maps the     *)
(* generated ids to the NPCs, and the tick of an NPC executes its tools    *)
(* under the NPC's Name.                                                   *)
(***************************************************************************)
\* the ids uuid.New() generates, each once
NPCIDs == {"id1", "id2"}

\* req.Name of the registrations (RegisterHandler refuses an empty one)
NPCNames == {"Elara", "Borin"}

NPC(name, backgroundStory) == [Name |-> name, BackgroundStory |-> backgroundStory]

\* NPCStorage.Register(name, backgroundStory), as RegisterHandler calls it
Register(id, name) ==
    /\ id \notin DOMAIN npcs
    /\ npcs' = (id :> NPC(name, "a story")) @@ npcs
    /\ call' = Call("Register", [name |-> name], [id |-> id, err |-> NoErr])
    /\ UNCHANGED <<refreshed, workers, procs, tools, handlers, storage, game, sessions, now, nextSweep,
                   swept, tick>>

\* ActHandler for a request without session id, up to its call of
\* npc.ActForTick: the NPC is the one NPCStorage.Get finds
ActHandlerNPC(id) ==
    /\ tick.pc \in {"idle", "done"}
    /\ IF id \in DOMAIN npcs
       THEN /\ tick' = [IdleTick EXCEPT !.pc = "generate", !.npc = npcs[id].Name, !.id = id,
                                        !.input = NPCTickInput(<<>>, BaseRegistry)]
            /\ call' = Call("ActHandler", [npcID |-> id, sessionID |-> ""],
                            [tools |-> <<>>, err |-> NoErr])
       ELSE /\ tick' = IdleTick
            /\ call' = Call("ActHandler", [npcID |-> id, sessionID |-> ""],
                            [tools |-> <<>>, err |-> Err("NPC not found")])
    /\ UNCHANGED <<refreshed, workers, npcs, procs, tools, handlers, storage, game, sessions, now,
                   nextSweep, swept>>

\* what the provider has an NPC remember: a value that names the NPC's id
MemoryOf(id) == "memory of " \o id

\* the invocations the provider answers the tick of an NPC with
NPCToolUses(id) ==
    {<<ToolUse("write_scratchpad", ("key" :> "k1") @@ ("value" :> MemoryOf(id)))>>,
     <<ToolUse("read_scratchpad", "key" :> "k1")>>,
     <<ToolUse("list_scratchpad", Args0)>>,
     <<ToolUse("delete_scratchpad", "key" :> "k1")>>}

InitNPC == InitMain /\ InitSessions /\ InitTick

NextNPC ==
    \/ \E id \in NPCIDs, name \in NPCNames : Register(id, name)
    \/ \E id \in NPCIDs : ActHandlerNPC(id)
    \/ \E text \in Texts(tick.calls + 1), toolUses \in NPCToolUses(tick.id) :
          GenerateResponds(text, toolUses)
    \/ ExecuteNextTool
    \/ BaseCase
    \/ FinishTick

\* registrations of NPCs and ticks by NPC id
SpecNPC == InitNPC /\ [][NextNPC]_vars

(***************************************************************************)
(* The properties of the NPCs' memory.                                     *)
(***************************************************************************)
\* the step executes a tool of the tick, and this is its outcome
ExecutedTool == tick.pc = "tools" /\ Len(tick'.toolResults) = Len(tick.toolResults) + 1

Executed == tick'.toolResults[Len(tick'.toolResults)]

\* C25: an entry that write_scratchpad stored during a tick of one registered
\* NPC is never returned by read_scratchpad or list_scratchpad, nor removed
\* by delete_scratchpad, during a tick of an NPC with another npc_id.
C25_MemoryScopedPerNPC ==
    [][ExecutedTool =>
          \A pad \in DOMAIN storage, key \in {"k1"}, other \in NPCIDs \ {tick.id} :
              (key \in DOMAIN storage[pad] /\ storage[pad][key].Value = MemoryOf(other)) =>
                  /\ key \in DOMAIN storage'[pad]
                  /\ Executed.ToolName = "read_scratchpad"
                        => Executed.Response # key \o ": " \o MemoryOf(other)
                  /\ Executed.ToolName = "list_scratchpad"
                        => Executed.Response
                              # "Stored memories:\n" \o ListMessage(storage[pad], <<key>>)]_vars

(***************************************************************************)
(* Ticks on inputs that carry surroundings, a knowledge graph and events.  *)
(***************************************************************************)
\* NPC.ActForTick(input), the tool registry being part of the input
ActForTick(n, input) ==
    /\ tick.pc \in {"idle", "done"}
    /\ tick' = [IdleTick EXCEPT !.pc = "generate", !.npc = n, !.input = input]
    /\ UNCHANGED <<refreshed, workers, npcs, procs, tools, handlers, storage, game, call, sessions, now,
                   nextSweep, swept>>

\* the inputs of these ticks
TickInputs ==
    {[NPCTickInput(<<>>, BaseRegistry) EXCEPT
         !.Surroundings = <<Surrounding("door", "an oak door")>>,
         !.KnowledgeGraphDepth = 2],
     [NPCTickInput(<<NPCTickEvent("player_spoke", "the player said hello")>>, BaseRegistry)
      EXCEPT
         !.Surroundings = <<Surrounding("door", "an oak door"),
                            Surrounding("lamp", "a lamp")>>,
         !.KnowledgeGraph = KnowledgeGraph(<<[ID |-> "n1", Data |-> EmptyMap]>>, <<>>),
         !.KnowledgeGraphDepth = 1]}

\* the lists of invocations the provider answers these ticks with
InputToolUses ==
    {<<>>,
     <<ToolUse("continue_thinking", Args0)>>,
     <<ToolUse("write_scratchpad", ArgsKV), ToolUse("continue_thinking", Args0)>>,
     <<ToolUse("continue_thinking", Args0), ToolUse("write_scratchpad", "value" :> "v1")>>}

InitInput == InitMain /\ InitSessions /\ InitTick

NextInput ==
    \/ \E n \in TickNPCs, input \in TickInputs : ActForTick(n, input)
    \/ \E text \in Texts(tick.calls + 1), toolUses \in InputToolUses :
          GenerateResponds(text, toolUses)
    \/ ExecuteNextTool
    \/ ContinueThinking
    \/ BaseCase
    \/ ReturnToCaller
    \/ FinishTick

\* ticks on inputs with surroundings, knowledge and events
SpecInput == InitInput /\ [][NextInput]_vars

\* C30: when a frame continues, the input of the next round has one event
\* for each tool outcome of the frame, in the order of the outcomes, of type
\* tool_error for the outcomes that did not succeed and tool_execution for
\* the others; the events the frame was given are gone; and the surroundings,
\* the knowledge graph, its depth and the tool registry are the frame's.
C30_ContinuationInput ==
    [][(tick.pc = "tools" /\ tick'.pc = "generate") =>
          LET outcomes == tick.toolResults
              events == tick'.input.Events
          IN  /\ Len(events) = Len(outcomes)
              /\ \A i \in DOMAIN outcomes :
                    /\ events[i].EventType
                          = (IF outcomes[i].Success THEN "tool_execution" ELSE "tool_error")
                    /\ events[i] = ToolResultEvent(outcomes[i])
              /\ tick'.input.Surroundings = tick.input.Surroundings
              /\ tick'.input.KnowledgeGraph = tick.input.KnowledgeGraph
              /\ tick'.input.KnowledgeGraphDepth = tick.input.KnowledgeGraphDepth
              /\ tick'.input.ToolRegistry = tick.input.ToolRegistry]_vars

\* C30: the third round of a tick is about to begin: the second round had two
\* events (the outcomes of the first round) and left one outcome, and the
\* input now holds that one event, next to the two surroundings, the
\* knowledge graph and the depth the tick was given
C30_Witness ==
    /\ tick.pc = "generate"
    /\ tick.depth = 2
    /\ Len(tick.frames[1].toolResults) = 2
    /\ ~tick.frames[1].toolResults[2].Success
    /\ Len(tick.frames[2].toolResults) = 1
    /\ tick.input.Events
          = <<NPCTickEvent("tool_execution",
                           "Tool 'continue_thinking' executed - Response: Continuing thinking: No reason provided")>>
    /\ Len(tick.input.Surroundings) = 2
    /\ tick.input.KnowledgeGraph.Nodes # <<>>
    /\ tick.input.KnowledgeGraphDepth = 1

(***************************************************************************)
(* The session manager with the cleanup goroutine scheduled fairly.  The   *)
(* clock of the model stops at MaxClock, so the calls that refresh a       *)
(* session are made only while a whole expiration window and one more      *)
(* step of the clock still lie ahead: every session's expiry then falls    *)
(* inside the time the model covers.                                       *)
(***************************************************************************)
SweepSessionIDs == {"s1", "g1"}
SweepRegisterLists == {<<giveItemSession>>}

\* a refresh now leaves time for the session to expire
WindowAhead == now + expirationDuration + ClockStep <= MaxClock

NextSweeping ==
    \/ \E id \in SweepSessionIDs, ts \in SweepRegisterLists :
          WindowAhead /\ RegisterSession(id, ts)
    \/ \E id \in SweepSessionIDs :
          (WindowAhead \/ id \notin DOMAIN sessions) /\ GetSessionTools(id)
    \/ \E id \in SweepSessionIDs : DeleteSession(id)
    \/ Sweep
    \/ AdvanceClock

\* time passes, and the cleanup goroutine runs whenever its ticker has fired
SpecSweeping ==
    /\ InitSess
    /\ [][NextSweeping]_vars
    /\ WF_vars(Sweep)
    /\ WF_vars(AdvanceClock)

\* C32: with the sweep scheduled fairly, a session that is in the map and is
\* registered and looked up no more is removed in the end; and a lookup of a
\* session the map does not hold returns the not-found error.
C32_IdleSessionEventuallyRemoved ==
    /\ \A id \in SweepSessionIDs : (id \in DOMAIN sessions) ~> (id \notin DOMAIN sessions)
    /\ [][\A id \in SweepSessionIDs :
             (call'.op = "GetSessionTools" /\ call' # call /\ call'.arg.sessionID = id
                 /\ id \notin DOMAIN sessions)
                => call'.out.err = Err("session not found: " \o id)]_vars

\* C32: the sweep removed s1, and the lookup of s1 just returned not-found
C32_Witness ==
    /\ "s1" \in swept
    /\ "s1" \notin DOMAIN sessions
    /\ call.op = "GetSessionTools"
    /\ call.arg.sessionID = "s1"
    /\ call.out.err = Err("session not found: s1")

(***************************************************************************)
(* Removal of sessions, with the session manager's operations interleaved *)
(* statement by statement.                                                 *)
(***************************************************************************)

\* C33: a session leaves the map only in DeleteSession for it, or in a sweep
\* at a time more than the expiration window after its LastUsed; and a sweep
\* removes no session whose latest registration or successful lookup lies
\* within the expiration window before the sweep.
C33_RemovedOnlyByDeleteOrExpiry ==
    [][\A id \in DOMAIN sessions :
          id \notin DOMAIN sessions' =>
             \/ call'.op = "DeleteSession" /\ call'.arg.sessionID = id
             \/ /\ call'.op = "Sweep"
                /\ now - sessions[id].LastUsed > expirationDuration
                /\ now - refreshed[id] > expirationDuration]_vars

(***************************************************************************)
(* The registry over its whole life.                                       *)
(***************************************************************************)
\* arguments continue_thinking declares: none, the reason, a reason that is
\* no string
DeclaredContinueArgs == {EmptyMap, "reason" :> "look again", "reason" :> "#7"}

\* C34: the registry always holds the built-in continue_thinking declaration
\* bound to the built-in handler, ExecuteTool of continue_thinking with
\* declared arguments succeeds and changes nothing, and no call removes a
\* name from the registry or gives a registered name another declaration or
\* another handler.
C34_RegistryAppendOnly ==
    /\ [](/\ "continue_thinking" \in DOMAIN tools
          /\ tools["continue_thinking"] = continueThinkingTool
          /\ handlers["continue_thinking"] = "continueThinkingHandler"
          /\ \A args \in DeclaredContinueArgs, n \in RegNPCs :
                \A o \in ExecuteTool(registry, n, ToolUse("continue_thinking", args), world, now) :
                   o.ran /\ o.res.Success /\ o.err = NoErr /\ o.world = world)
    /\ [][/\ DOMAIN tools \subseteq DOMAIN tools'
          /\ DOMAIN handlers \subseteq DOMAIN handlers'
          /\ \A n \in DOMAIN tools : tools'[n] = tools[n]
          /\ \A n \in DOMAIN handlers : handlers'[n] = handlers[n]]_vars

\* C34: after speak and write_scratchpad were registered and used, a
\* registration under the name continue_thinking was turned down
C34_Witness ==
    /\ call.op = "RegisterTool"
    /\ call.arg.tool.Name = "continue_thinking"
    /\ call.arg.handler = "gameHandler"
    /\ DOMAIN tools = {"continue_thinking", "speak", "write_scratchpad"}
    /\ storage # EmptyMap
    /\ game # {}

(***************************************************************************)
(* POST /tools/register.  A request body that decodes gives a session id   *)
(* and a list of llm.Tool; the parameters of a tool carry a description    *)
(* next to their type.                                                     *)
(***************************************************************************)
ToolParameter(type, description, required) ==
    [Type |-> type, Description |-> description, Required |-> required]

ToolRegistrationRequest(sessionID, ts) == [decodes |-> TRUE, SessionID |-> sessionID, Tools |-> ts]

\* a body json.NewDecoder(r.Body).Decode fails on
UndecodableRequest == [decodes |-> FALSE, SessionID |-> "", Tools |-> <<>>]

\* llm.TypeString, TypeNumber, TypeBoolean, TypeObject, TypeArray
ParameterTypes == {"string", "number", "boolean", "object", "array"}

\* the tools of the requests: three that pass, and one for each defect
giveItemRequest ==
    Tool("give_item", "hand over an item", "item" :> ToolParameter("string", "the item", TRUE))
speakRequest ==
    Tool("speak", "say a line", "line" :> ToolParameter("string", "the line", TRUE))
speakAloudRequest ==
    Tool("speak", "say a line aloud",
         ("line" :> ToolParameter("array", "the words", TRUE))
            @@ ("loud" :> ToolParameter("boolean", "shout it", FALSE)))
namelessRequest == Tool("", "nameless", EmptyMap)
undescribedRequest == Tool("move", "", EmptyMap)
undescribedParameterRequest ==
    Tool("give_item", "hand over an item", "item" :> ToolParameter("string", "", TRUE))
integerParameterRequest ==
    Tool("speak", "say a line",
         ("line" :> ToolParameter("string", "the line", TRUE))
            @@ ("count" :> ToolParameter("integer", "how often", FALSE)))

\* the tool lists of the requests
RegisteredToolLists ==
    {<<>>,
     <<giveItemRequest>>,
     <<speakRequest>>,
     <<speakAloudRequest, giveItemRequest>>,
     <<namelessRequest>>,
     <<giveItemRequest, undescribedRequest>>,
     <<speakRequest, integerParameterRequest>>,
     <<undescribedParameterRequest, speakRequest>>,
     <<speakAloudRequest, undescribedParameterRequest>>}

RequestSessionIDs == {"", "s1", "g1"}

RegistrationRequests ==
    {UndecodableRequest} \cup
    {ToolRegistrationRequest(id, ts) : id \in RequestSessionIDs, ts \in RegisteredToolLists}

\* the 400 responses the handler may give for one tool ({} when the tool
\* passes): the name, the description, then the parameters in the order of a
\* map iteration, the description of each before its type
ToolProblems(tool) ==
    IF tool.Name = "" THEN {"Tool name is required"}
    ELSE IF tool.Description = "" THEN {"Tool description is required"}
    ELSE {IF tool.Parameters[p].Description = ""
          THEN "Parameter description is required"
          ELSE "Invalid parameter type" :
             p \in {q \in DOMAIN tool.Parameters :
                       \/ tool.Parameters[q].Description = ""
                       \/ tool.Parameters[q].Type \notin ParameterTypes}}

\* the loop over req.Tools that looks at the first tool only
ValidateTools_FirstOnly(ts) ==
    IF ts = <<>> THEN {} ELSE ToolProblems(Head(ts))

RECURSIVE ValidateTools(_)
\* for i, tool := range req.Tools: the responses of the first tool that fails
ValidateTools(ts) ==
    IF ts = <<>> THEN {}
    ELSE IF ToolProblems(Head(ts)) # {} THEN ToolProblems(Head(ts))
    ELSE ValidateTools(Tail(ts))

\* the 400 responses of the handler's checks, {} when the request passes
ValidateRequest(req) ==
    IF ~req.decodes THEN {"Invalid JSON"}
    ELSE IF req.SessionID = "" THEN {"Session ID is required"}
    ELSE IF Len(req.Tools) = 0 THEN {"At least one tool must be provided"}
    ELSE ValidateTools(req.Tools)

\* ToolHandlers.RegisterHandler: the checks, then
\* h.sessionManager.RegisterSession(req.SessionID, req.Tools) and the 201
RegisterHandler(req) ==
    IF ValidateRequest(req) # {}
    THEN /\ \E message \in ValidateRequest(req) :
               call' = Call("RegisterHandler", [req |-> req],
                            [status |-> 400, message |-> message])
         /\ UNCHANGED <<refreshed, workers, npcs, procs, tools, handlers, storage, game, sessions, now, nextSweep, swept, tick>>
    ELSE LET session == IF req.SessionID \in DOMAIN sessions
                        THEN [sessions[req.SessionID] EXCEPT !.LastUsed = now]
                        ELSE Session(req.SessionID, EmptyMap, now, now)
         IN  /\ sessions' = (req.SessionID :> [session EXCEPT !.Tools = PutTools(@, req.Tools)])
                                @@ sessions
             /\ swept' = swept \ {req.SessionID}
             /\ call' = Call("RegisterHandler", [req |-> req],
                             [status |-> 201, message |-> "Tools registered successfully"])
             /\ UNCHANGED <<refreshed, workers, npcs, procs, tools, handlers, storage, game, now, nextSweep, tick>>

NextToolsAPI ==
    \/ \E req \in RegistrationRequests : RegisterHandler(req)
    \/ \E id \in RequestSessionIDs : GetSessionTools(id)
    \/ \E id \in RequestSessionIDs : DeleteSession(id)
    \/ AdvanceClock

\* registrations over HTTP, lookups, deletions and the passing of time
SpecToolsAPI == InitSess /\ [][NextToolsAPI]_vars

\* a tool the registration must turn down
InvalidTool(tool) ==
    \/ tool.Name = ""
    \/ tool.Description = ""
    \/ \E p \in DOMAIN tool.Parameters :
          \/ tool.Parameters[p].Description = ""
          \/ tool.Parameters[p].Type \notin ParameterTypes

\* C35: a POST /tools/register with an empty session id, with no tools, or
\* with a tool that has an empty name, an empty description, or a parameter
\* with an empty description or a type that is none of string, number,
\* boolean, object and array, is answered with a 400 and leaves the session
\* map as it was: no session is created, no declaration added or replaced.
C35_RegisterAllOrNothing ==
    [][(/\ call'.op = "RegisterHandler"
        /\ call'.arg.req.decodes
        /\ \/ call'.arg.req.SessionID = ""
           \/ call'.arg.req.Tools = <<>>
           \/ \E i \in DOMAIN call'.arg.req.Tools : InvalidTool(call'.arg.req.Tools[i]))
          => /\ call'.out.status = 400
             /\ sessions' = sessions]_vars

\* C35: s1 holds give_item; a request for s1 whose first tool passes and
\* whose second tool has a parameter of type integer was turned down, and
\* s1 holds what it held
C35_Witness ==
    /\ call.op = "RegisterHandler"
    /\ call.arg.req.SessionID = "s1"
    /\ Len(call.arg.req.Tools) = 2
    /\ ~InvalidTool(call.arg.req.Tools[1])
    /\ call.arg.req.Tools[1].Name = "speak"
    /\ call.out = [status |-> 400, message |-> "Invalid parameter type"]
    /\ "s1" \in DOMAIN sessions
    /\ DOMAIN sessions["s1"].Tools = {"give_item"}

(***************************************************************************)
(* Arguments of session tools and of the base registry's tools.            *)
(***************************************************************************)
\* args lacks a parameter decl requires, or has one decl does not declare
Defective(decl, args) == MissingRequired(decl, args) # {} \/ Unexpected(decl, args) # {}

\* C36: the combined registry's ExecuteTool of a name the session declares
\* returns success=true also when the arguments lack a parameter the
\* session's declaration requires or hold one it does not declare; with the
\* same defect against the declaration of a tool of the base registry that
\* the session does not declare, it returns success=false and no handler runs.
C36_SessionArgumentsUnchecked ==
    [][call'.op = "CombinedExecuteTool" =>
          LET toolUse == call'.arg.toolUse
              sessionTools == call'.arg.sessionTools
          IN  /\ \A i \in DOMAIN sessionTools :
                    (sessionTools[i].Name = toolUse.ToolName
                        /\ Defective(sessionTools[i], toolUse.ToolArgs))
                      => call'.out.res.Success /\ call'.out.err = NoErr
              /\ (/\ toolUse.ToolName \notin Names(sessionTools)
                  /\ toolUse.ToolName \in DOMAIN tools
                  /\ Defective(tools[toolUse.ToolName], toolUse.ToolArgs))
                    => /\ ~call'.out.res.Success
                       /\ call'.out.err # NoErr
                       /\ ~call'.out.ran
                       /\ storage' = storage
                       /\ game' = game]_vars

\* C36: speak, declared by the session with the required parameter line,
\* was executed without arguments and succeeded
C36_Witness ==
    /\ call.op = "CombinedExecuteTool"
    /\ call.arg.toolUse = ToolUse("speak", Args0)
    /\ speakSession \in {call.arg.sessionTools[i] : i \in DOMAIN call.arg.sessionTools}
    /\ MissingRequired(speakSession, Args0) = {"line"}
    /\ call.out.res.Success
    /\ call.out.err = NoErr

(***************************************************************************)
(* Deletion of sessions.                                                   *)
(***************************************************************************)

\* C37: DeleteSession of a session in the map returns no error and removes
\* that session and nothing else; DeleteSession of an id not in the map
\* returns the not-found error and leaves the map as it was; only
\* RegisterSession brings an id into the map, so until then GetSessionTools
\* for it returns the not-found error; and the session RegisterSession
\* creates for an id not in the map holds the declarations of that call and
\* no others.
C37_DeleteSessionFrame ==
    [][/\ call'.op = "DeleteSession" =>
            LET id == call'.arg.sessionID IN
            IF id \in DOMAIN sessions
            THEN /\ call'.out.err = NoErr
                 /\ DOMAIN sessions' = DOMAIN sessions \ {id}
                 /\ \A other \in DOMAIN sessions' : sessions'[other] = sessions[other]
            ELSE /\ call'.out.err = Err("session not found: " \o id)
                 /\ sessions' = sessions
       /\ \A id \in DOMAIN sessions' \ DOMAIN sessions :
             /\ call'.op = "RegisterSession"
             /\ call'.arg.sessionID = id
             /\ sessions'[id].Tools = PutTools(EmptyMap, call'.arg.tools)
             /\ DOMAIN sessions'[id].Tools = Names(call'.arg.tools)
       /\ (call'.op = "GetSessionTools" /\ call'.arg.sessionID \notin DOMAIN sessions) =>
             /\ call'.out.err = Err("session not found: " \o call'.arg.sessionID)
             /\ call'.out.tools = <<>>
             /\ sessions' = sessions]_vars

\* C37: s1 was deleted while g1, registered at another time with two
\* declarations, stayed
C37_Witness ==
    /\ call.op = "DeleteSession"
    /\ call.arg.sessionID = "s1"
    /\ call.out.err = NoErr
    /\ DOMAIN sessions = {"g1"}
    /\ DOMAIN sessions["g1"].Tools = {"speak", "give_item"}
    /\ sessions["g1"].LastUsed > sessions["g1"].CreatedAt

(***************************************************************************)
(* The scratchpad storage with its goroutines scheduled fairly.  A         *)
(* goroutine that is inside an operation keeps running; one that waits for *)
(* s.mu or for a scratchpad's mu gets it if the lock comes free again and  *)
(* again (sync.RWMutex lets no waiter starve: a waiting Lock holds back    *)
(* new readers, and the readers that wait go in when the writer unlocks).  *)
(* Whether a goroutine starts another operation is up to its caller.       *)
(***************************************************************************)
\* one statement of the operation goroutine g is in
PadStep(g) ==
    \/ SLock(g)
    \/ GetOrCreate(g)
    \/ SRLock(g)
    \/ PadLookup(g)
    \/ ReadLen(g)
    \/ PadLock(g)
    \/ PadRLock(g)
    \/ Access(g)
    \/ Range(g)
    \/ Copy(g)

\* the first goroutine works for either NPC, the second for Elara
NextPadFair ==
    \/ \E g \in PadGoroutines, op \in PadOps, key \in PadKeys :
          \E npcID \in (IF g = "t1" THEN PadNPCs ELSE {"Elara"}) : PadEnter(g, op, npcID, key)
    \/ \E g \in PadGoroutines : PadStep(g)

SpecPadFair ==
    /\ InitPad
    /\ [][NextPadFair]_vars
    /\ \A g \in PadGoroutines : SF_vars(PadStep(g))

\* C38: a goroutine inside a scratchpad handler or inside GetAllScratchpads
\* leaves it in the end, whatever the other goroutine does.
C38_PadOperationsComplete ==
    \A g \in PadGoroutines : (workers[g].pc # "out") ~> (workers[g].pc = "out")

\* C38: GetAllScratchpads holds s.mu and waits for the mu of a scratchpad
\* that a write of the other goroutine holds
C38_Witness ==
    \E g, h \in PadGoroutines :
        /\ workers[g].op = "GetAllScratchpads"
        /\ workers[g].smu = "r"
        /\ workers[g].pc = "padRLock"
        /\ workers[h].op = "handleWrite"
        /\ workers[h].pc = "write"
        /\ workers[h].pad = workers[g].pad
        /\ workers[h].padmu = "w"

(***************************************************************************)
(* A tick whose provider calls and tool handlers return.                   *)
(***************************************************************************)
\* what the provider answers with: nothing to invoke, continue_thinking
\* alone, after a write, or with arguments it does not declare, a session tool
FairProviderToolUses ==
    {<<>>,
     <<ToolUse("continue_thinking", Args0)>>,
     <<ToolUse("write_scratchpad", ArgsKV), ToolUse("continue_thinking", Args0)>>,
     <<ToolUse("continue_thinking", "bogus" :> "x")>>,
     <<ToolUse("give_item", "item" :> "sword")>>}

\* one step of the tick in progress: a provider call that fails or answers,
\* the execution of a tool, the recursion, the base case, a return
TickStep ==
    \/ \E msg \in ProviderErrors : GenerateFails(msg)
    \/ \E text \in Texts(tick.calls + 1), toolUses \in FairProviderToolUses :
          GenerateResponds(text, toolUses)
    \/ ExecuteNextTool
    \/ ContinueThinking
    \/ BaseCase
    \/ ReturnToCaller
    \/ FinishTick

NextTickFair ==
    \/ \E n \in TickNPCs, reg \in TickRegistries : StartTick(n, reg)
    \/ TickStep

\* ticks, one after another, each of which keeps running once it has started
SpecTickFair == Init /\ [][NextTickFair]_vars /\ WF_vars(TickStep)

\* C39: a tick that has started ends, whatever the provider answers, and it
\* has called the provider at most maxThinkingDepth + 1 = 4 times.
C39_TickTerminates ==
    /\ (tick.pc \notin {"idle", "done"}) ~> (tick.pc = "done")
    /\ [](tick.calls <= maxThinkingDepth + 1)

\* C39: the provider invoked continue_thinking in each of its answers, and
\* the tick ended after the fourth provider call
C39_Witness ==
    /\ tick.pc = "done"
    /\ tick.calls = maxThinkingDepth + 1
    /\ tick.failedAt = -1
    /\ \A i \in DOMAIN tick.result.Rounds :
          \E j \in DOMAIN tick.result.Rounds[i].ToolsUsed :
             tick.result.Rounds[i].ToolsUsed[j].ToolName = "continue_thinking"

====
